---- MODULE Spec2Model ----
(***************************************************************************)
(* State-machine model of the payments gateway of acoruss.github.io:      *)
(* apps/payments/{api_auth,api_views,views,models,services,               *)
(* webhook_dispatcher}.py.                                                 *)
(*                                                                         *)
(* Every request handler is an `async def`; it yields at each `await`.     *)
(* A handler is therefore modelled as a sequence of atomic steps, one per  *)
(* database or upstream round trip that another handler can observe, run   *)
(* by one of the Workers.  Money is kept in minor units (1/100), which is  *)
(* exact for the two-decimal Decimal columns of the Payment model.         *)
(***************************************************************************)
EXTENDS Integers, Sequences, FiniteSets, TLC

\* ------------------------------------------------------------------ bounds
\* Rows the payments table may hold.
MaxPayments == 2
\* Requests the environment issues in one behaviour.
MaxRequests == 3
\* Requests issued one after another in the sequential specification.
MaxSeqRequests == 3

\* Concurrent request tasks.
Workers == {"w1", "w2"}

\* --------------------------------------------------------------- constants
RATE_LIMIT_WINDOW == 60
RATE_LIMIT_MAX_REQUESTS == 60
\* api_key[:12]
KEY_PREFIX_LEN == 12
\* auth_header[7:]
BEARER_LEN == 7
MAX_RETRIES == 3

\* --------------------------------------------------------------- tenants
\* Characters of the strings the auth layer slices.
Bearer == <<"B", "e", "a", "r", "e", "r", " ">>
Basic == <<"B", "a", "s", "i", "c", " ">>
PrefixA == <<"a", "k", "_", "a", "a", "a", "a", "a", "a", "a", "a", "a">>
PrefixB == <<"a", "k", "_", "b", "b", "b", "b", "b", "b", "b", "b", "b">>
\* generate_api_key: "ak_" + hex; two keys may share their first 12 characters.
KeyA == PrefixA \o <<"1">>
KeyB == PrefixB \o <<"1">>
\* A key no tenant owns that falls into tenant A's rate-limit bucket.
KeyX == PrefixA \o <<"2">>

\* Keys later draws of generate_api_key return: one falls into tenant A's
\* rate-limit bucket, one into a bucket of its own.
PrefixC == <<"a", "k", "_", "c", "c", "c", "c", "c", "c", "c", "c", "c">>
KeyN1 == PrefixA \o <<"3">>
KeyN2 == PrefixC \o <<"1">>

NoService == 0
SvcA == 1
SvcB == 2
ServiceIds == {SvcA, SvcB}

Ip1 == "10.0.0.1"
Ip2 == "10.0.0.2"

\* The ServiceProduct rows: A restricts callers by IP and has a webhook URL,
\* B accepts every IP, only KES, and has no webhook URL.  retired_keys is
\* history: the keys the row held before its credentials were regenerated.
InitServices ==
    [s \in ServiceIds |->
        IF s = SvcA
        THEN [api_key |-> KeyA, api_secret |-> "sk_a", is_active |-> TRUE,
              allowed_ips |-> {Ip1}, allowed_currencies |-> {},
              webhook_url |-> "https://a/hook", retired_keys |-> {}]
        ELSE [api_key |-> KeyB, api_secret |-> "sk_b", is_active |-> TRUE,
              allowed_ips |-> {}, allowed_currencies |-> {"KES"},
              webhook_url |-> "", retired_keys |-> {}]]

\* Payment.Currency.choices
Currencies == {"KES", "USD", "NGN"}

VARIABLES
    services,          \* ServiceProduct table: id -> row
    payments,          \* Payment table: sequence of rows, pk = index
    logs,              \* WebhookDeliveryLog table, in creation order
    rate_limit_store,  \* _rate_limit_store: bucket -> timestamps (as a bag: time -> count)
    admitted,          \* history: per bucket, the arrival times the limiter admitted
    now,               \* time.time(), in seconds
    task,              \* per worker: the handler it runs, its position and locals
    resp,              \* the HTTP response the last step sent, or NoResp
    calls,             \* per payment pk: what was sent to upstream / the dispatcher
    budget,            \* requests the environment may still issue
    secret_key         \* settings.PAYSTACK_SECRET_KEY ("" when not configured)

vars == <<services, payments, logs, rate_limit_store, admitted, now, task, resp, calls,
          budget, secret_key>>

NoResp == [op |-> "none", code |-> 0]
Idle == [pc |-> "idle"]

\* ------------------------------------------------------------ api_auth.py
StartsWith(s, p) == Len(s) >= Len(p) /\ SubSeq(s, 1, Len(p)) = p

Min(a, b) == IF a < b THEN a ELSE b

\* s[:n]
Take(s, n) == SubSeq(s, 1, Min(n, Len(s)))

\* s[n:]
Drop(s, n) == SubSeq(s, n + 1, Len(s))

\* The peer address alone, whatever X-Forwarded-For says.
remote_addr(meta) == meta.remote

\* get_client_ip: first entry of X-Forwarded-For when present, else REMOTE_ADDR.
get_client_ip(meta) ==
    IF meta.xff # <<>> THEN Head(meta.xff) ELSE meta.remote

\* f"api:{api_key[:12]}"
Bucket(api_key) == <<"api:">> \o Take(api_key, KEY_PREFIX_LEN)

\* Timestamps of a bucket, as a bag time -> count; a missing key is an empty list.
Stamps(store, key) == IF key \in DOMAIN store THEN store[key] ELSE << >>

BagSize(b) ==
    LET RECURSIVE Sum(_)
        Sum(S) == IF S = {} THEN 0
                  ELSE LET t == CHOOSE x \in S : TRUE IN b[t] + Sum(S \ {t})
    IN Sum(DOMAIN b)

\* Pruning with half the window.
PrunedHalfWindow(b, t0) ==
    LET keep == {t \in DOMAIN b : t > t0 - (RATE_LIMIT_WINDOW \div 2)}
    IN [t \in keep |-> b[t]]

\* [t for t in store[key] if t > window_start]
Pruned(b, t0) ==
    LET keep == {t \in DOMAIN b : t > t0 - RATE_LIMIT_WINDOW}
    IN [t \in keep |-> b[t]]

BagAdd(b, t) ==
    [x \in DOMAIN b \cup {t} |-> IF x \in DOMAIN b
                                  THEN b[x] + (IF x = t THEN 1 ELSE 0)
                                  ELSE 1]

\* _check_rate_limit: the verdict ...
RateAdmits(store, key, t0) ==
    BagSize(Pruned(Stamps(store, key), t0)) < RATE_LIMIT_MAX_REQUESTS

\* The timestamp appended whatever the verdict.
RateStoreAppendsAlways(store, key, t0) ==
    LET kept == Pruned(Stamps(store, key), t0)
    IN [k \in DOMAIN store \cup {key} |-> IF k = key THEN BagAdd(kept, t0) ELSE store[k]]

\* ... and the store it leaves: pruned always, the timestamp appended on admission.
RateStoreAfter(store, key, t0) ==
    LET kept == Pruned(Stamps(store, key), t0)
        new == IF BagSize(kept) < RATE_LIMIT_MAX_REQUESTS THEN BagAdd(kept, t0) ELSE kept
    IN [k \in DOMAIN store \cup {key} |-> IF k = key THEN new ELSE store[k]]

\* The lookup without is_active=True.
ServiceWithKey(svcs, api_key) ==
    {s \in ServiceIds : svcs[s].api_key = api_key}

\* ServiceProduct.objects.aget(api_key=api_key, is_active=True); api_key is unique.
ActiveServiceWithKey(svcs, api_key) ==
    {s \in ServiceIds : svcs[s].api_key = api_key /\ svcs[s].is_active}

\* ServiceAuthMixin.dispatch up to the call of the handler: the status code it
\* answers with (200: the handler runs) and the tenant set on the request.
Authenticate(svcs, store, t0, header, meta) ==
    IF ~StartsWith(header, Bearer)
    THEN [code |-> 401, service |-> NoService, limited |-> FALSE]
    ELSE LET api_key == Drop(header, BEARER_LEN)
             found == ActiveServiceWithKey(svcs, api_key)
         IN IF ~RateAdmits(store, Bucket(api_key), t0)
            THEN [code |-> 429, service |-> NoService, limited |-> TRUE]
            ELSE IF found = {}
            THEN [code |-> 401, service |-> NoService, limited |-> FALSE]
            ELSE LET s == CHOOSE x \in found : TRUE
                 IN IF svcs[s].allowed_ips # {}
                       /\ get_client_ip(meta) \notin svcs[s].allowed_ips
                    THEN [code |-> 403, service |-> NoService, limited |-> FALSE]
                    ELSE [code |-> 200, service |-> s, limited |-> FALSE]

\* The rate-limit store after dispatch: untouched when the header is rejected
\* before the rate check.
StoreAfterAuth(store, t0, header) ==
    IF ~StartsWith(header, Bearer) THEN store
    ELSE RateStoreAfter(store, Bucket(Drop(header, BEARER_LEN)), t0)

\* The history of admissions after dispatch: the arrival time is recorded for
\* the bucket when _check_rate_limit returned True.
AdmittedAfter(adm, store, t0, header) ==
    IF StartsWith(header, Bearer)
       /\ RateAdmits(store, Bucket(Drop(header, BEARER_LEN)), t0)
    THEN LET key == Bucket(Drop(header, BEARER_LEN))
         IN [k \in DOMAIN adm \cup {key} |->
                IF k = key THEN BagAdd(Stamps(adm, key), t0) ELSE adm[k]]
    ELSE adm

\* ------------------------------------------------------------- models.py
\* generate_reference draws "acoruss-" + 12 hex digits at random.  Fresh values
\* are interchangeable, so a draw is either the next unused name or a repeat
\* of a reference already stored.
RefNames == <<"acoruss-00000000000a", "acoruss-00000000000b",
              "acoruss-00000000000c", "acoruss-00000000000d">>

RefsOf(ps) == {ps[i].reference : i \in DOMAIN ps}

FreshRef(ps) ==
    RefNames[CHOOSE i \in DOMAIN RefNames :
                /\ RefNames[i] \notin RefsOf(ps)
                /\ \A j \in 1..(i - 1) : RefNames[j] \in RefsOf(ps)]

generate_reference(ps) == {FreshRef(ps)} \cup RefsOf(ps)

\* A Payment row with the model's defaults.
\* The row that stores no owning tenant.
NewPaymentUnowned(svc, ref, body, key) ==
    [service |-> NoService, reference |-> ref, idempotency_key |-> key,
     email |-> body.email, amount |-> body.amount, currency |-> body.currency,
     status |-> "pending", paystack_id |-> "", channel |-> "", fees |-> 0,
     authorization_url |-> "",
     refund_status |-> "none", refunded_amount |-> 0, paystack_refund_id |-> "",
     webhook_delivered |-> FALSE, webhook_delivered_at |-> << >>]

NewPayment(svc, ref, body, key) ==
    [service |-> svc, reference |-> ref, idempotency_key |-> key,
     email |-> body.email, amount |-> body.amount, currency |-> body.currency,
     status |-> "pending", paystack_id |-> "", channel |-> "", fees |-> 0,
     authorization_url |-> "",
     refund_status |-> "none", refunded_amount |-> 0, paystack_refund_id |-> "",
     webhook_delivered |-> FALSE, webhook_delivered_at |-> << >>]

\* ------------------------------------------------- amounts as Python floats
\* An amount with two fractional digits is written c / 100 with c its count
\* of minor units.  The views hold it as the IEEE-754 double d nearest to
\* c / 100 (json.loads, float(), round(.., 2)) and compute int(d * 100).
\* With 2^e <= c / 100 < 2^(e+1) and u = 2^(e - 52), d = c / 100 - r * u / 100
\* or c / 100 + (100 - r) * u / 100, where r is the remainder of c * 2^(52 - e)
\* by 100; d * 100 is then rounded to the nearest double near c, whose
\* neighbours lie 2^(E - 52) above and, from a power of two, half as far below
\* (2^E <= c < 2^(E+1)).
RECURSIVE FloorLog2(_)
FloorLog2(n) == IF n < 2 THEN 0 ELSE 1 + FloorLog2(n \div 2)

RECURSIVE Pow2(_)
Pow2(k) == IF k = 0 THEN 1 ELSE 2 * Pow2(k - 1)

RECURSIVE Pow2Mod100(_)
Pow2Mod100(k) == IF k = 0 THEN 1 ELSE (2 * Pow2Mod100(k - 1)) % 100

\* E - e, which is 6 or 7 as 2^6 < 100 < 2^7.
ExponentGap(c) == IF 64 * c >= 100 * Pow2(FloorLog2(c)) THEN 6 ELSE 7

\* The remainder r of c * 2^(52 - e) by 100.
MantissaRemainder(c) ==
    ((c % 100) * Pow2Mod100(52 - (FloorLog2(c) - ExponentGap(c)))) % 100

\* int(d * 100) for the double d nearest to c / 100: the product falls to the
\* double below c, and int() to c - 1, when d lies more than half a spacing
\* below c / 100 * 100.
IntOfFloatTimes100(c) ==
    IF /\ MantissaRemainder(c) \in 33..49
       /\ (ExponentGap(c) = 6 \/ c = Pow2(FloorLog2(c)))
    THEN c - 1
    ELSE c

\* Payment.amount_in_kobo on the row just created, whose amount is still the
\* float passed to acreate.
amount_in_kobo(amount) == IntOfFloatTimes100(amount)

\* amount_kobo = int(refund_amount * 100) in the refund views.
amount_kobo(refund_amount) == IntOfFloatTimes100(refund_amount)

\* History kept beside a payment row: upstream initiate calls, dispatcher calls
\* per event, the sum upstream reported refunded to the refund views, and the
\* refund.processed webhooks handled for the row.
NoCalls == [init |-> 0, success |-> 0, refunded |-> 0, refund_total |-> 0,
            refund_webhooks |-> 0]

\* Payment.is_successful
is_successful(p) == p.status = "success"

\* Payment.refundable_amount
refundable_amount(p) == p.amount - p.refunded_amount

\* The test that only excludes fully refunded payments.
is_refundable_unless_full(p) ==
    /\ p.status = "success"
    /\ p.refund_status # "full"
    /\ p.amount - p.refunded_amount > 0

\* Payment.is_refundable
is_refundable(p) ==
    /\ is_successful(p)
    /\ p.refund_status \in {"none", "partial"}
    /\ refundable_amount(p) > 0

\* Payment.objects.aget(reference=reference): the pks found (reference is unique).
ByReference(ps, ref) == {i \in DOMAIN ps : ps[i].reference = ref}

\* The lookup by reference alone.
ByReferenceAnyService(ps, ref, svc) == ByReference(ps, ref)

\* Payment.objects.aget(reference=reference, service=request.service)
ByReferenceAndService(ps, ref, svc) ==
    {i \in DOMAIN ps : ps[i].reference = ref /\ ps[i].service = svc}

\* The filter without idempotency_key=key.
ByServiceOnly(ps, key, svc) ==
    {i \in DOMAIN ps : ps[i].service = svc}

\* Payment.objects.filter(idempotency_key=key, service=svc)
ByIdempotencyKey(ps, key, svc) ==
    {i \in DOMAIN ps : ps[i].idempotency_key = key /\ ps[i].service = svc}

\* .afirst() under Meta.ordering = ["-created_at"]: the newest row.
First(S) == CHOOSE i \in S : \A j \in S : j <= i

\* ------------------------------------------------------------ services.py
\* What the upstream processor reports about a charge: id, channel, fees (minor).
Reports ==
    {[id |-> "tx1", channel |-> "card", fees |-> 3500],
     [id |-> "tx2", channel |-> "mobile_money", fees |-> 1000]}

\* initialise_transaction: {"status": False} without a secret key or on any
\* failure, else what the processor answered.
initialise_transaction(secret) ==
    IF secret = "" THEN {[status |-> FALSE, authorization_url |-> ""]}
    ELSE {[status |-> TRUE, authorization_url |-> "https://p/abc"],
          [status |-> TRUE, authorization_url |-> ""],
          [status |-> FALSE, authorization_url |-> ""]}

\* verify_transaction: data.status is the processor's view of the charge.
verify_transaction(secret) ==
    IF secret = "" THEN {[status |-> FALSE, data_status |-> "", data |-> << >>]}
    ELSE {[status |-> FALSE, data_status |-> "", data |-> << >>],
          [status |-> TRUE, data_status |-> "abandoned", data |-> << >>],
          [status |-> TRUE, data_status |-> "failed", data |-> << >>]}
         \cup {[status |-> TRUE, data_status |-> "success", data |-> r] : r \in Reports}

\* Amounts (minor units) the processor may report for a refund.
ReportedRefunds == {0, 10000, 30000}

\* create_refund
create_refund(secret) ==
    IF secret = "" THEN {[status |-> FALSE, amount |-> 0, id |-> ""]}
    ELSE {[status |-> FALSE, amount |-> 0, id |-> ""]}
         \cup {[status |-> TRUE, amount |-> a, id |-> "rf1"] : a \in ReportedRefunds}

\* hmac.new(secret, payload, sha512).hexdigest(), kept symbolic: equal digests
\* have equal key and message.
HmacSha512(secret, payload) == [alg |-> "sha512", key |-> secret, msg |-> payload]

\* The check that lets every request through when no secret is configured.
validate_unless_unconfigured(secret, payload, signature) ==
    secret = "" \/ HmacSha512(secret, payload) = signature

\* validate_webhook_signature
validate_webhook_signature(secret, payload, signature) ==
    /\ secret # ""
    /\ HmacSha512(secret, payload) = signature

\* ------------------------------------------------------------ bookkeeping
\* A step that ends a request without touching the database.
Reply(w, r) ==
    /\ resp' = r
    /\ task' = [task EXCEPT ![w] = Idle]

\* The response of the step that took a public-API request, with the request
\* it answers (Authorization header and connection metadata).
Answer(w, r, header, meta) ==
    Reply(w, r @@ [header |-> header, meta |-> meta])

\* The bound on the payments table, not a test the code makes: the tasks that
\* passed their checks and are about to insert a row ...
Inserting == {w \in Workers : task[w].pc \in {"init_create"}}

\* ... and whether the table holds fewer than MaxPayments rows with theirs.
Room == Len(payments) + Cardinality(Inserting) < MaxPayments

\* ------------------------------------------------- api_views.py: initiate
\* The validation block of APIInitiatePaymentView.post: the fields in error.
ValidationErrors(svc, body) ==
    (IF body.email = "" THEN {"email"} ELSE {})
    \cup (IF body.amount <= 0 THEN {"amount"} ELSE {})
    \cup (IF body.currency \notin Currencies THEN {"currency"} ELSE {})
    \cup (IF svc.allowed_currencies # {} /\ body.currency \notin svc.allowed_currencies
          THEN {"currency"} ELSE {})

\* APIInitiatePaymentView.post up to its first insert: authentication,
\* validation and the idempotency lookup.
APIInitiateStart(w, header, meta, body) ==
    LET a == Authenticate(services, rate_limit_store, now, header, meta)
        key == body.idempotency_key
        existing == ByIdempotencyKey(payments, key, a.service)
    IN
    /\ task[w] = Idle
    /\ budget > 0
    /\ budget' = budget - 1
    /\ rate_limit_store' = StoreAfterAuth(rate_limit_store, now, header)
    /\ admitted' = AdmittedAfter(admitted, rate_limit_store, now, header)
    /\ UNCHANGED <<services, payments, logs, now, calls, secret_key>>
    /\ IF a.code # 200
       THEN Answer(w, [op |-> "initiate", code |-> a.code], header, meta)
       ELSE IF ValidationErrors(services[a.service], body) # {}
       THEN Answer(w, [op |-> "initiate", code |-> 400, service |-> a.service],
                   header, meta)
       ELSE IF key # "" /\ existing # {}
       THEN Answer(w, [op |-> "initiate", code |-> 200, service |-> a.service,
                      key |-> key,
                      message |-> "Payment already exists (idempotent)",
                      reference |-> payments[First(existing)].reference,
                      authorization_url |-> payments[First(existing)].authorization_url,
                      status |-> payments[First(existing)].status], header, meta)
       ELSE /\ Room
            /\ resp' = NoResp
            /\ task' = [task EXCEPT ![w] =
                          [pc |-> "init_create", service |-> a.service, body |-> body,
                           header |-> header, meta |-> meta]]

\* Payment.objects.acreate: the unique index on reference rejects a repeat
\* (IntegrityError, answered 500).
APIInitiateCreate(w, ref) ==
    LET t == task[w] IN
    /\ t.pc = "init_create"
    /\ ref \in generate_reference(payments)
    /\ UNCHANGED <<services, logs, rate_limit_store, admitted, now, budget, secret_key>>
    /\ IF ref \in RefsOf(payments)
       THEN /\ Reply(w, [op |-> "initiate", code |-> 500, service |-> t.service,
                         key |-> t.body.idempotency_key])
            /\ UNCHANGED <<payments, calls>>
       ELSE /\ payments' = Append(payments,
                             NewPayment(t.service, ref, t.body, t.body.idempotency_key))
            /\ calls' = Append(calls, NoCalls)
            /\ resp' = NoResp
            /\ task' = [task EXCEPT ![w] =
                          [pc |-> "init_upstream", service |-> t.service,
                           pk |-> Len(payments) + 1, body |-> t.body]]

\* services.initialise_transaction and the write of authorization_url.
APIInitiateUpstream(w, result) ==
    LET t == task[w] IN
    /\ t.pc = "init_upstream"
    /\ result \in initialise_transaction(secret_key)
    /\ calls' = [calls EXCEPT ![t.pk].init = @ + 1]
    /\ UNCHANGED <<services, logs, rate_limit_store, admitted, now, budget, secret_key>>
    /\ IF result.status /\ result.authorization_url # ""
       THEN /\ payments' = [payments EXCEPT
                              ![t.pk].authorization_url = result.authorization_url]
            /\ Reply(w, [op |-> "initiate", code |-> 200, service |-> t.service,
                         key |-> t.body.idempotency_key,
                         message |-> "Payment initiated",
                         reference |-> payments[t.pk].reference,
                         authorization_url |-> result.authorization_url,
                         status |-> "pending"])
       ELSE /\ UNCHANGED payments
            /\ Reply(w, [op |-> "initiate", code |-> 502, service |-> t.service,
                         key |-> t.body.idempotency_key])



\* ---------------------------------------------------- webhook_dispatcher.py
\* RETRY_DELAYS, in seconds
RETRY_DELAYS == <<1, 5, 25>>

\* What one POST to the tenant endpoint may end in.  urlopen returns only 2xx
\* responses; any other status is raised as HTTPError, and a transport error
\* or the 15 s timeout as URLError / TimeoutError.
AttemptOutcomes ==
    {[kind |-> "response", status |-> 200, message |-> ""],
     [kind |-> "response", status |-> 204, message |-> ""],
     [kind |-> "http_error", status |-> 500, message |-> "HTTP Error 500"],
     [kind |-> "error", status |-> 0, message |-> "Connection refused"],
     [kind |-> "timeout", status |-> 0, message |-> "timed out"]}

\* The two outcomes the specifications of whole requests draw from: the
\* endpoint answers 200 or cannot be reached.
EndpointOutcomes ==
    {o \in AttemptOutcomes : o.status = 200 \/ o.kind = "error"}

\* The success test that accepts 200 only.
IsStatus200(status) == status = 200

\* log_entry.success = 200 <= response.status < 300
IsSuccessStatus(status) == 200 <= status /\ status < 300

\* The loop guard that sleeps and goes on after the last attempt as well.
RetriesLeftInclusive(attempt) == attempt <= MAX_RETRIES

\* `if attempt < MAX_RETRIES` / `for attempt in range(1, MAX_RETRIES + 1)`:
\* another attempt follows a failed one.
RetriesLeft(attempt) == attempt < MAX_RETRIES

\* The back-off that reads RETRY_DELAYS one place too far.
DelayOfNextAttempt(attempt) == RETRY_DELAYS[attempt + 1]

\* `RETRY_DELAYS[attempt - 1]`: the sleep after failed attempt 1, 2, ...
\* (Python indexes from 0).
Delay(attempt) == RETRY_DELAYS[attempt]

\* The guard that dispatches whatever webhook_url holds.
AnyWebhookUrl(svc) == TRUE

\* `if not service.webhook_url: return False`
HasWebhookUrl(svc) == svc.webhook_url # ""

\* hmac.new(secret, payload, sha256).hexdigest(), kept symbolic: equal digests
\* have equal key and message.
sign_payload(payload, secret) == [alg |-> "sha256", key |-> secret, msg |-> payload]

\* json.dumps(payload_data).encode(): the bytes posted at every attempt.
payload_bytes(event, reference) == [event |-> event, reference |-> reference]

\* The response that ends the request in which dispatch_webhook returned,
\* with what the call returned and did: its result, the log rows it created
\* and the back-off sleeps it made.
Returned(final, delivered, rows, waits) ==
    final @@ [dispatch |-> [delivered |-> delivered, rows |-> rows, waits |-> waits]]

\* The call `await dispatch_webhook(service=..., payment=..., event=...)` made by
\* worker w, which answers `final` once the dispatcher returns: the dispatcher
\* returns at once for a tenant without webhook_url, else enters its loop.
\* cs holds the call counters the calling handler leaves, payment the Payment
\* object the handler holds in memory (the row pk as the handler loaded and
\* changed it), which the dispatcher keeps for its whole retry sequence.
CallDispatchFrom(cs, w, svc, pk, payment, event, final) ==
    /\ calls' = [cs EXCEPT ![pk] =
                   IF event = "payment.success"
                   THEN [@ EXCEPT !.success = @ + 1]
                   ELSE [@ EXCEPT !.refunded = @ + 1]]
    /\ IF ~HasWebhookUrl(services[svc])
       THEN Reply(w, Returned(final, FALSE, << >>, << >>))
       ELSE /\ resp' = NoResp
            /\ task' = [task EXCEPT ![w] =
                          [pc |-> "dispatch_log", service |-> svc, pk |-> pk,
                           payment |-> payment,
                           event |-> event, attempt |-> 1, final |-> final,
                           rows |-> << >>, waits |-> << >>,
                           body |-> payload_bytes(event, payment.reference),
                           signature |->
                              sign_payload(payload_bytes(event, payment.reference),
                                           services[svc].api_secret)]]

\* The same call from a handler that made no counted call of its own.
CallDispatch(w, svc, pk, payment, event, final) ==
    CallDispatchFrom(calls, w, svc, pk, payment, event, final)

\* The pass that marks the payment delivered as soon as the attempt is logged.
DispatchLogMarksDelivered(w) ==
    LET t == task[w]
        row == [service |-> t.service, payment |-> t.pk, event |-> t.event,
                request_body |-> t.body, signature |-> t.signature,
                attempt |-> t.attempt, response_status |-> 0, success |-> FALSE,
                error_message |-> "", finished |-> FALSE, answered |-> 0]
    IN
    /\ t.pc = "dispatch_log"
    /\ logs' = Append(logs, row)
    /\ resp' = NoResp
    /\ task' = [task EXCEPT ![w].pc = "dispatch_post",
                            ![w].rows = Append(@, Len(logs) + 1)]
    /\ payments' = [payments EXCEPT ![t.pk].webhook_delivered = TRUE,
                                    ![t.pk].webhook_delivered_at = <<now>>]
    /\ UNCHANGED <<services, rate_limit_store, admitted, now, calls, budget, secret_key>>

\* The pass that saves the dispatcher's Payment object with every column.
DispatchPostSavesPayment(w, outcome) ==
    LET t == task[w]
        ok == outcome.kind = "response" /\ IsSuccessStatus(outcome.status)
        id == t.rows[Len(t.rows)]
        delivered == [t.payment EXCEPT !.webhook_delivered = TRUE,
                                       !.webhook_delivered_at = <<now>>]
    IN
    /\ t.pc = "dispatch_post"
    /\ outcome \in AttemptOutcomes
    /\ logs' = [logs EXCEPT ![id] =
                  IF outcome.kind = "response"
                  THEN [@ EXCEPT !.response_status = outcome.status,
                                 !.success = ok, !.finished = TRUE,
                                 !.answered = outcome.status]
                  ELSE [@ EXCEPT !.error_message = outcome.message,
                                 !.finished = TRUE,
                                 !.answered = outcome.status]]
    /\ UNCHANGED <<services, rate_limit_store, admitted, calls, budget, secret_key>>
    /\ IF ok
       THEN /\ payments' = [payments EXCEPT ![t.pk] = delivered]
            /\ now' = now
            /\ Reply(w, Returned(t.final, TRUE, t.rows, t.waits))
       ELSE /\ UNCHANGED payments
            /\ IF RetriesLeft(t.attempt)
               THEN /\ now' = now + Delay(t.attempt)
                    /\ resp' = NoResp
                    /\ task' = [task EXCEPT ![w].pc = "dispatch_log",
                                            ![w].attempt = @ + 1,
                                            ![w].waits =
                                               Append(@, Delay(t.attempt))]
               ELSE /\ now' = now
                    /\ Reply(w, Returned(t.final, FALSE, t.rows, t.waits))

\* The head of one pass of the retry loop: WebhookDeliveryLog.objects.acreate.
\* response_status 0 stands for the null column; `answered` notes beside the
\* row the HTTP status the endpoint answered the attempt with (0: no answer).
DispatchLog(w) ==
    LET t == task[w]
        row == [service |-> t.service, payment |-> t.pk, event |-> t.event,
                request_body |-> t.body, signature |-> t.signature,
                attempt |-> t.attempt, response_status |-> 0, success |-> FALSE,
                error_message |-> "", finished |-> FALSE, answered |-> 0]
    IN
    /\ t.pc = "dispatch_log"
    /\ logs' = Append(logs, row)
    /\ resp' = NoResp
    /\ task' = [task EXCEPT ![w].pc = "dispatch_post",
                            ![w].rows = Append(@, Len(logs) + 1)]
    /\ UNCHANGED <<services, payments, rate_limit_store, admitted, now, calls, budget,
                   secret_key>>

\* The rest of the pass: the POST is made and the log row updated; on success
\* the payment is marked and the call returns True; on failure the dispatcher
\* sleeps RETRY_DELAYS[attempt - 1] when attempts are left, else returns False.
\* The payment is saved with update_fields=["webhook_delivered",
\* "webhook_delivered_at", "updated_at"]: the row takes these columns from the
\* dispatcher's Payment object (<<t>> stands for the time t, << >> for null).
DispatchPost(w, outcome) ==
    LET t == task[w]
        ok == outcome.kind = "response" /\ IsSuccessStatus(outcome.status)
        id == t.rows[Len(t.rows)]
        delivered == [t.payment EXCEPT !.webhook_delivered = TRUE,
                                       !.webhook_delivered_at = <<now>>]
    IN
    /\ t.pc = "dispatch_post"
    /\ outcome \in AttemptOutcomes
    /\ logs' = [logs EXCEPT ![id] =
                  IF outcome.kind = "response"
                  THEN [@ EXCEPT !.response_status = outcome.status,
                                 !.success = ok, !.finished = TRUE,
                                 !.answered = outcome.status]
                  ELSE [@ EXCEPT !.error_message = outcome.message,
                                 !.finished = TRUE,
                                 !.answered = outcome.status]]
    /\ UNCHANGED <<services, rate_limit_store, admitted, calls, budget, secret_key>>
    /\ IF ok
       THEN /\ payments' =
                  [payments EXCEPT
                      ![t.pk].webhook_delivered = delivered.webhook_delivered,
                      ![t.pk].webhook_delivered_at = delivered.webhook_delivered_at]
            /\ now' = now
            /\ Reply(w, Returned(t.final, TRUE, t.rows, t.waits))
       ELSE /\ UNCHANGED payments
            /\ IF RetriesLeft(t.attempt)
               THEN /\ now' = now + Delay(t.attempt)
                    /\ resp' = NoResp
                    /\ task' = [task EXCEPT ![w].pc = "dispatch_log",
                                            ![w].attempt = @ + 1,
                                            ![w].waits =
                                               Append(@, Delay(t.attempt))]
               ELSE /\ now' = now
                    /\ Reply(w, Returned(t.final, FALSE, t.rows, t.waits))

\* ------------------------------------------------- views.py: verification
\* VerifyPaymentView.get up to the upstream call: the payment is loaded.
VerifyStart(w, reference) ==
    /\ task[w] = Idle
    /\ budget > 0
    /\ budget' = budget - 1
    /\ UNCHANGED <<services, payments, logs, rate_limit_store, admitted, now, calls, secret_key>>
    /\ IF reference = "" \/ ByReference(payments, reference) = {}
       THEN Reply(w, [op |-> "verify", code |-> 302])
       ELSE /\ resp' = NoResp
            /\ task' = [task EXCEPT ![w] =
                          [pc |-> "verify_upstream",
                           pk |-> First(ByReference(payments, reference)),
                           copy |-> payments[First(ByReference(payments, reference))]]]

\* services.verify_transaction, the write of the outcome and, for a tenant's
\* payment that the processor reports successful, the call of the dispatcher.
VerifyUpstream(w, result) ==
    LET t == task[w]
        p == payments[t.pk]
        final == [op |-> "verify", code |-> 302, upstream_status |-> result.status]
        paid == [t.copy EXCEPT !.status = "success",
                               !.paystack_id = result.data.id,
                               !.channel = result.data.channel,
                               !.fees = result.data.fees]
    IN
    /\ t.pc = "verify_upstream"
    /\ result \in verify_transaction(secret_key)
    /\ UNCHANGED <<services, logs, rate_limit_store, admitted, now, budget, secret_key>>
    /\ IF result.status /\ result.data_status = "success"
       THEN /\ payments' = [payments EXCEPT ![t.pk] =
                              [@ EXCEPT !.status = "success",
                                        !.paystack_id = result.data.id,
                                        !.channel = result.data.channel,
                                        !.fees = result.data.fees]]
            /\ IF p.service # NoService
               THEN CallDispatch(w, p.service, t.pk, paid, "payment.success", final)
               ELSE Reply(w, final) /\ UNCHANGED calls
       ELSE /\ payments' = [payments EXCEPT ![t.pk].status =
                              IF result.data_status = "abandoned"
                              THEN "abandoned" ELSE "failed"]
            /\ Reply(w, final)
            /\ UNCHANGED calls

\* ------------------------------------------------ views.py: inbound webhook
\* The handler that notifies a tenant for every payment, tenant A for the
\* payments that have none.
HandleChargeSuccessAnyPayment(w, data, final) ==
    LET found == ByReference(payments, data.reference)
        pk == First(found)
    IN
    IF data.reference = "" \/ found = {}
    THEN Reply(w, final) /\ UNCHANGED <<payments, calls>>
    ELSE /\ payments' = [payments EXCEPT ![pk] =
                           [@ EXCEPT !.status = "success",
                                     !.paystack_id = data.id,
                                     !.channel = data.channel,
                                     !.fees = data.fees]]
         /\ CallDispatch(w, IF payments[pk].service # NoService
                            THEN payments[pk].service ELSE SvcA,
                         pk, payments'[pk], "payment.success", final)

\* PaystackWebhookView._handle_charge_success
HandleChargeSuccess(w, data, final) ==
    LET found == ByReference(payments, data.reference)
        pk == First(found)
    IN
    IF data.reference = "" \/ found = {}
    THEN Reply(w, final) /\ UNCHANGED <<payments, calls>>
    ELSE /\ payments' = [payments EXCEPT ![pk] =
                           [@ EXCEPT !.status = "success",
                                     !.paystack_id = data.id,
                                     !.channel = data.channel,
                                     !.fees = data.fees]]
         /\ IF payments[pk].service # NoService
            THEN CallDispatch(w, payments[pk].service, pk, payments'[pk],
                              "payment.success", final)
            ELSE Reply(w, final) /\ UNCHANGED calls

\* PaystackWebhookView._handle_refund
HandleRefund(w, data, final) ==
    LET found == ByReference(payments, data.reference)
        pk == First(found)
        counted == [calls EXCEPT ![pk].refund_webhooks = @ + 1]
    IN
    IF data.reference = "" \/ found = {}
    THEN Reply(w, final) /\ UNCHANGED <<payments, calls>>
    ELSE /\ payments' = [payments EXCEPT ![pk] =
                           [@ EXCEPT !.refunded_amount = data.amount,
                                     !.paystack_refund_id = data.id,
                                     !.refund_status =
                                        IF data.amount >= payments[pk].amount
                                        THEN "full" ELSE "partial"]]
         /\ IF payments[pk].service # NoService
            THEN CallDispatchFrom(counted, w, payments[pk].service, pk, payments'[pk],
                                  "payment.refunded", final)
            ELSE Reply(w, final) /\ calls' = counted

\* PaystackWebhookView.post.  body.json tells whether json.loads accepts the body.
PaystackWebhook(w, body, signature) ==
    LET final == [op |-> "webhook", code |-> 200, body |-> body,
                  signature |-> signature]
        rejected(msg) == [op |-> "webhook", code |-> 400, error |-> msg,
                          body |-> body, signature |-> signature]
    IN
    /\ task[w] = Idle
    /\ budget > 0
    /\ budget' = budget - 1
    /\ UNCHANGED <<services, logs, rate_limit_store, admitted, now, secret_key>>
    /\ IF ~validate_webhook_signature(secret_key, body, signature)
       THEN Reply(w, rejected("Invalid signature")) /\ UNCHANGED <<payments, calls>>
       ELSE IF ~body.json
       THEN Reply(w, rejected("Invalid JSON")) /\ UNCHANGED <<payments, calls>>
       ELSE IF body.event = "charge.success"
       THEN HandleChargeSuccess(w, body.data, final)
       ELSE IF body.event = "refund.processed"
       THEN HandleRefund(w, body.data, final)
       ELSE Reply(w, final) /\ UNCHANGED <<payments, calls>>


\* --------------------------------------------------- api_views.py: refund
\* The amount block of APIRefundView.post / PaymentRefundView.post: TRUE when
\* the requested amount is rejected with 400.  amount_raw.given is FALSE for
\* a request without amount (a full refund).
RefundAmountRejected(p, amount_raw) ==
    /\ amount_raw.given
    /\ (amount_raw.value <= 0 \/ amount_raw.value > refundable_amount(p))

\* The in-memory Payment after a successful create_refund:
\* refunded_amount += refunded, then refund_status from the new total.
ApplyRefund(copy, result) ==
    LET total == copy.refunded_amount + result.amount IN
    [copy EXCEPT !.refunded_amount = total,
                 !.paystack_refund_id = result.id,
                 !.refund_status = IF total >= copy.amount THEN "full" ELSE "partial"]

\* asave() without update_fields: the row takes every column of the object.
SaveEveryField(row, copy) == copy

\* asave(update_fields=["refunded_amount", "refund_status", "paystack_refund_id"]):
\* the row takes these three columns from the in-memory object.
SaveRefundFields(row, copy) ==
    [row EXCEPT !.refunded_amount = copy.refunded_amount,
                !.refund_status = copy.refund_status,
                !.paystack_refund_id = copy.paystack_refund_id]

\* APIRefundView.post up to the upstream call.
APIRefundStart(w, header, meta, reference, amount_raw) ==
    LET a == Authenticate(services, rate_limit_store, now, header, meta)
        found == ByReferenceAndService(payments, reference, a.service)
        pk == First(found)
    IN
    /\ task[w] = Idle
    /\ budget > 0
    /\ budget' = budget - 1
    /\ rate_limit_store' = StoreAfterAuth(rate_limit_store, now, header)
    /\ admitted' = AdmittedAfter(admitted, rate_limit_store, now, header)
    /\ UNCHANGED <<services, payments, logs, now, calls, secret_key>>
    /\ IF a.code # 200
       THEN Answer(w, [op |-> "refund", code |-> a.code], header, meta)
       ELSE IF found = {}
       THEN Answer(w, [op |-> "refund", code |-> 404, service |-> a.service,
                      reference |-> reference, error |-> "Payment not found"], header, meta)
       ELSE IF ~is_refundable(payments[pk])
       THEN Answer(w, [op |-> "refund", code |-> 400, service |-> a.service,
                      reference |-> reference], header, meta)
       ELSE IF RefundAmountRejected(payments[pk], amount_raw)
       THEN Answer(w, [op |-> "refund", code |-> 400, service |-> a.service,
                      reference |-> reference], header, meta)
       ELSE /\ resp' = NoResp
            /\ task' = [task EXCEPT ![w] =
                          [pc |-> "refund_upstream", op |-> "refund",
                           service |-> a.service, pk |-> pk,
                           copy |-> payments[pk], amount_raw |-> amount_raw,
                           header |-> header, meta |-> meta]]

\* PaymentRefundView.post (dashboard) up to the upstream call.
PaymentRefundStart(w, pk, amount_raw) ==
    /\ task[w] = Idle
    /\ budget > 0
    /\ budget' = budget - 1
    /\ UNCHANGED <<services, payments, logs, rate_limit_store, admitted, now, calls, secret_key>>
    /\ IF pk \notin DOMAIN payments
       THEN Reply(w, [op |-> "dashboard_refund", code |-> 302])
       ELSE IF ~is_refundable(payments[pk])
       THEN Reply(w, [op |-> "dashboard_refund", code |-> 302])
       ELSE IF RefundAmountRejected(payments[pk], amount_raw)
       THEN Reply(w, [op |-> "dashboard_refund", code |-> 302])
       ELSE /\ resp' = NoResp
            /\ task' = [task EXCEPT ![w] =
                          [pc |-> "refund_upstream", op |-> "dashboard_refund",
                           service |-> NoService, pk |-> pk,
                           copy |-> payments[pk], amount_raw |-> amount_raw]]

\* The test that takes any answer of the processor for a success.
RefundAnswered(result) == TRUE

\* `if result.get("status")`
RefundSucceeded(result) == result.status

\* services.create_refund and what both refund views do with its result.
RefundUpstream(w, result) ==
    LET t == task[w]
        copy == ApplyRefund(t.copy, result)
        refunded == [calls EXCEPT ![t.pk].refund_total = @ + result.amount]
        done == IF t.op = "refund"
                THEN [op |-> "refund", code |-> 200, service |-> t.service,
                      reference |-> copy.reference,
                      refund_status |-> copy.refund_status,
                      refunded_amount |-> copy.refunded_amount,
                      upstream_status |-> result.status]
                ELSE [op |-> "dashboard_refund", code |-> 302]
    IN
    /\ t.pc = "refund_upstream"
    /\ result \in create_refund(secret_key)
    /\ UNCHANGED <<services, logs, rate_limit_store, admitted, now, budget, secret_key>>
    /\ IF RefundSucceeded(result)
       THEN /\ payments' = [payments EXCEPT ![t.pk] = SaveRefundFields(@, copy)]
            /\ IF copy.service # NoService
               THEN CallDispatchFrom(refunded, w, copy.service, t.pk, copy,
                                     "payment.refunded", done)
               ELSE Reply(w, done) /\ calls' = refunded
       ELSE /\ UNCHANGED <<payments, calls>>
            /\ Reply(w, IF t.op = "refund"
                        THEN [op |-> "refund", code |-> 502, service |-> t.service,
                              reference |-> t.copy.reference,
                              upstream_status |-> result.status]
                        ELSE [op |-> "dashboard_refund", code |-> 302])

\* --------------------------------------------- api_views.py: status, list
\* APIPaymentStatusView.get
APIPaymentStatus(w, header, meta, reference) ==
    LET a == Authenticate(services, rate_limit_store, now, header, meta)
        found == ByReferenceAndService(payments, reference, a.service)
        p == payments[First(found)]
    IN
    /\ task[w] = Idle
    /\ budget > 0
    /\ budget' = budget - 1
    /\ rate_limit_store' = StoreAfterAuth(rate_limit_store, now, header)
    /\ admitted' = AdmittedAfter(admitted, rate_limit_store, now, header)
    /\ UNCHANGED <<services, payments, logs, now, calls, secret_key>>
    /\ IF a.code # 200
       THEN Answer(w, [op |-> "status", code |-> a.code], header, meta)
       ELSE IF found = {}
       THEN Answer(w, [op |-> "status", code |-> 404, service |-> a.service,
                      reference |-> reference, error |-> "Payment not found"], header, meta)
       ELSE Answer(w, [op |-> "status", code |-> 200, service |-> a.service,
                      reference |-> p.reference,
                      status |-> p.status, refund_status |-> p.refund_status,
                      refunded_amount |-> p.refunded_amount], header, meta)

\* Payment.Status.choices
Statuses == {"pending", "success", "failed", "abandoned"}

\* The queryset without filter(service=...).
ListQuerysetAllTenants(ps, svc, query) ==
    {i \in DOMAIN ps :
        /\ (query.status # "" /\ query.status \in Statuses => ps[i].status = query.status)
        /\ (query.email # "" => ps[i].email = query.email)}

\* The queryset of APIPaymentListView.get as the pks it holds:
\* filter(service=...), then the status filter when the value is a known status,
\* then the email filter when given.
ListQueryset(ps, svc, query) ==
    {i \in DOMAIN ps :
        /\ ps[i].service = svc
        /\ (query.status # "" /\ query.status \in Statuses => ps[i].status = query.status)
        /\ (query.email # "" => ps[i].email = query.email)}

\* The pks of S in Meta.ordering = ["-created_at"]: newest first.
RECURSIVE NewestFirst(_)
NewestFirst(S) ==
    IF S = {} THEN << >>
    ELSE LET m == First(S) IN <<m>> \o NewestFirst(S \ {m})

Max(a, b) == IF a > b THEN a ELSE b

\* qs[offset : offset + per_page]
Slice(seq, offset, n) ==
    SubSeq(seq, offset + 1, Min(offset + n, Len(seq)))

\* The body APIPaymentListView.get answers with.
ListResponse(ps, svc, query) ==
    LET qs == ListQueryset(ps, svc, query)
        page == Max(query.page, 1)
        per_page == Min(Max(query.per_page, 1), 100)
        offset == (page - 1) * per_page
        total == Cardinality(qs)
        rows == Slice(NewestFirst(qs), offset, per_page)
    IN [op |-> "list", code |-> 200, service |-> svc, query |-> query,
        data |-> [i \in DOMAIN rows |-> ps[rows[i]].reference],
        total |-> total, page |-> page, per_page |-> per_page,
        pages |-> Max((total + per_page - 1) \div per_page, 1)]

\* APIPaymentListView.get
APIPaymentList(w, header, meta, query) ==
    LET a == Authenticate(services, rate_limit_store, now, header, meta) IN
    /\ task[w] = Idle
    /\ budget > 0
    /\ budget' = budget - 1
    /\ rate_limit_store' = StoreAfterAuth(rate_limit_store, now, header)
    /\ admitted' = AdmittedAfter(admitted, rate_limit_store, now, header)
    /\ UNCHANGED <<services, payments, logs, now, calls, secret_key>>
    /\ IF a.code # 200
       THEN Answer(w, [op |-> "list", code |-> a.code], header, meta)
       ELSE Answer(w, ListResponse(payments, a.service, query), header, meta)

\* ------------------------------------------------ views.py: public, admin
\* InitiatePaymentView.post (the operator's own page) up to the upstream call:
\* a payment without tenant is inserted.
DirectInitiateStart(w, body, ref) ==
    /\ task[w] = Idle
    /\ budget > 0
    /\ budget' = budget - 1
    /\ ref \in generate_reference(payments)
    /\ UNCHANGED <<services, logs, rate_limit_store, admitted, now, secret_key>>
    /\ IF body.email = "" \/ body.amount <= 0
       THEN Reply(w, [op |-> "direct", code |-> 302]) /\ UNCHANGED <<payments, calls>>
       ELSE IF ref \in RefsOf(payments)
       THEN Reply(w, [op |-> "direct", code |-> 500]) /\ UNCHANGED <<payments, calls>>
       ELSE /\ Room
            /\ payments' = Append(payments, NewPayment(NoService, ref, body, ""))
            /\ calls' = Append(calls, NoCalls)
            /\ resp' = NoResp
            /\ task' = [task EXCEPT ![w] =
                          [pc |-> "direct_upstream", pk |-> Len(payments) + 1]]

\* services.initialise_transaction for the operator's page.
DirectInitiateUpstream(w, result) ==
    LET t == task[w] IN
    /\ t.pc = "direct_upstream"
    /\ result \in initialise_transaction(secret_key)
    /\ calls' = [calls EXCEPT ![t.pk].init = @ + 1]
    /\ UNCHANGED <<services, logs, rate_limit_store, admitted, now, budget, secret_key>>
    /\ payments' = IF result.status /\ result.authorization_url # ""
                   THEN [payments EXCEPT
                           ![t.pk].authorization_url = result.authorization_url]
                   ELSE payments
    /\ Reply(w, [op |-> "direct", code |-> 302])

\* ServiceToggleActiveView.post
ServiceToggleActive(s) ==
    /\ budget > 0
    /\ budget' = budget - 1
    /\ services' = [services EXCEPT ![s].is_active = ~@]
    /\ resp' = [op |-> "toggle", code |-> 302]
    /\ UNCHANGED <<payments, logs, rate_limit_store, admitted, now, task, calls, secret_key>>

\* The credentials generate_api_key / generate_api_secret may draw: 192 and
\* 256 random bits, so a draw repeats no key or secret that was ever issued.
NewCredentials(svcs) ==
    {c \in {[key |-> KeyN1, secret |-> "sk_n1"], [key |-> KeyN2, secret |-> "sk_n2"]} :
        \A s \in ServiceIds :
            c.key # svcs[s].api_key /\ c.key \notin svcs[s].retired_keys}

\* The write of regenerate_credentials with only api_secret in update_fields.
regenerate_secret_only(row, c) ==
    [row EXCEPT !.api_secret = c.secret, !.retired_keys = @ \cup {row.api_key}]

\* ServiceProduct.regenerate_credentials: both columns in one save.
regenerate_credentials(row, c) ==
    [row EXCEPT !.api_key = c.key, !.api_secret = c.secret,
                !.retired_keys = @ \cup {row.api_key}]

\* ServiceRegenerateKeysView.post
ServiceRegenerateKeys(s, c) ==
    /\ budget > 0
    /\ budget' = budget - 1
    /\ c \in NewCredentials(services)
    /\ services' = [services EXCEPT ![s] = regenerate_credentials(@, c)]
    /\ resp' = [op |-> "regenerate", code |-> 302]
    /\ UNCHANGED <<payments, logs, rate_limit_store, admitted, now, task, calls, secret_key>>


\* ------------------------------------------------------------ environment
\* Values of settings.PAYSTACK_SECRET_KEY: configured or not.
SecretKeys == {"", "sk_paystack"}

EmailA == "a@x.com"
EmailB == "b@x.com"

\* Request metadata: X-Forwarded-For entries and the peer address.
MetaFromIp1 == [xff |-> << >>, remote |-> Ip1]
MetaForwardedIp2 == [xff |-> <<Ip2, Ip1>>, remote |-> Ip1]
Metas == {MetaFromIp1, MetaForwardedIp2}

\* Authorization headers: the two tenants' keys, an unknown key, a wrong
\* scheme, no header.
Headers == {Bearer \o KeyA, Bearer \o KeyB, Bearer \o KeyX, Basic \o KeyA, << >>}
TenantHeaders == {Bearer \o KeyA, Bearer \o KeyB}

\* Initiate bodies after json.loads and round(float(amount), 2), amount in minor units.
BodyK1 == [email |-> EmailA, amount |-> 20000, currency |-> "KES", idempotency_key |-> "k1"]
BodyK2 == [email |-> EmailB, amount |-> 20000, currency |-> "KES", idempotency_key |-> "k2"]
BodyNoKey == [email |-> EmailA, amount |-> 20000, currency |-> "USD", idempotency_key |-> ""]
BodyNoEmail == [email |-> "", amount |-> 20000, currency |-> "KES", idempotency_key |-> "k1"]
BodyZero == [email |-> EmailA, amount |-> 0, currency |-> "KES", idempotency_key |-> "k1"]
BodyEUR == [email |-> EmailA, amount |-> 20000, currency |-> "EUR", idempotency_key |-> "k1"]

UnknownRef == "acoruss-ffffffffffff"
KnownRefs == {RefNames[1], RefNames[2]}

NoAmount == [given |-> FALSE, value |-> 0]
Amount(v) == [given |-> TRUE, value |-> v]

\* Bodies of inbound processor webhooks.
ChargeSuccess(ref, r) ==
    [json |-> TRUE, event |-> "charge.success",
     data |-> [reference |-> ref, id |-> r.id, channel |-> r.channel, fees |-> r.fees]]

RefundProcessed(ref, a) ==
    [json |-> TRUE, event |-> "refund.processed",
     data |-> [reference |-> ref, id |-> "rf9", amount |-> a]]

WebhookBodies ==
    {ChargeSuccess(ref, r) : ref \in KnownRefs, r \in Reports}
    \cup {RefundProcessed(ref, a) : ref \in KnownRefs, a \in ReportedRefunds}

RefundRequests == {NoAmount, Amount(10000)}

\* List queries: ?status=&email=&page=&per_page= after int().
ListQueries ==
    {[status |-> "", email |-> "", page |-> 1, per_page |-> 20],
     [status |-> "pending", email |-> EmailA, page |-> 2, per_page |-> 1],
     [status |-> "success", email |-> "", page |-> 1, per_page |-> 1],
     [status |-> "bogus", email |-> EmailB, page |-> 0, per_page |-> 0]}

InitWith(n) ==
    /\ services = InitServices
    /\ payments = << >>
    /\ logs = << >>
    /\ rate_limit_store = << >>
    /\ admitted = << >>
    /\ now = 0
    /\ task = [w \in Workers |-> Idle]
    /\ resp = NoResp
    /\ calls = << >>
    /\ budget = n
    /\ secret_key \in SecretKeys

Init == InitWith(MaxRequests)

\* The payment lifecycle under concurrent, authenticated requests.
Next ==
    \E w \in Workers :
        \/ \E h \in TenantHeaders : APIInitiateStart(w, h, MetaFromIp1, BodyK1)
        \/ \E ref \in generate_reference(payments) : APIInitiateCreate(w, ref)
        \/ \E r \in initialise_transaction(secret_key) : APIInitiateUpstream(w, r)
        \/ \E ref \in KnownRefs : VerifyStart(w, ref)
        \/ \E r \in verify_transaction(secret_key) : VerifyUpstream(w, r)
        \/ \E b \in WebhookBodies : PaystackWebhook(w, b, HmacSha512(secret_key, b))
        \/ \E h \in TenantHeaders, ref \in KnownRefs, a \in RefundRequests :
              APIRefundStart(w, h, MetaFromIp1, ref, a)
        \/ \E pk \in 1..MaxPayments, a \in RefundRequests : PaymentRefundStart(w, pk, a)
        \/ \E r \in create_refund(secret_key) : RefundUpstream(w, r)
        \/ DispatchLog(w)
        \/ \E o \in EndpointOutcomes : DispatchPost(w, o)
        \/ \E ref \in generate_reference(payments) : DirectInitiateStart(w, BodyNoKey, ref)
        \/ \E r \in initialise_transaction(secret_key) : DirectInitiateUpstream(w, r)

Spec == Init /\ [][Next]_vars

\* ------------------------------------------------- one request at a time
\* The same handlers run by a single task, so that each request ends before
\* the next one starts (administrative actions still interleave).
SeqWorker == "w1"

SeqBodies == {BodyK1, BodyK2, BodyZero}

InitSeq == InitWith(MaxSeqRequests)

NextSeq ==
    \/ \E h \in TenantHeaders, b \in SeqBodies :
          APIInitiateStart(SeqWorker, h, MetaFromIp1, b)
    \/ \E ref \in generate_reference(payments) : APIInitiateCreate(SeqWorker, ref)
    \/ \E r \in initialise_transaction(secret_key) : APIInitiateUpstream(SeqWorker, r)
    \/ \E ref \in KnownRefs : VerifyStart(SeqWorker, ref)
    \/ \E r \in verify_transaction(secret_key) : VerifyUpstream(SeqWorker, r)
    \/ \E b \in WebhookBodies : PaystackWebhook(SeqWorker, b, HmacSha512(secret_key, b))
    \/ \E h \in TenantHeaders, ref \in KnownRefs, a \in RefundRequests :
          APIRefundStart(SeqWorker, h, MetaFromIp1, ref, a)
    \/ \E r \in create_refund(secret_key) : RefundUpstream(SeqWorker, r)
    \/ DispatchLog(SeqWorker)
    \/ \E o \in EndpointOutcomes : DispatchPost(SeqWorker, o)
    \/ \E ref \in generate_reference(payments) :
          DirectInitiateStart(SeqWorker, BodyNoKey, ref)
    \/ \E r \in initialise_transaction(secret_key) : DirectInitiateUpstream(SeqWorker, r)

SpecSeq == InitSeq /\ [][NextSeq]_vars

\* --------------------------------------------------- the public API surface
\* Tenant A's rate-limit bucket as 59 requests bearing KeyX within the current
\* second leave it: each was answered 401 and changed nothing else.
NearlyFull == (Bucket(KeyX) :> (0 :> (RATE_LIMIT_MAX_REQUESTS - 1)))

\* The charge.success webhooks among WebhookBodies.
ChargeBodies == {b \in WebhookBodies : b.event = "charge.success"}

InitAPI ==
    /\ services = InitServices
    /\ payments = << >>
    /\ logs = << >>
    /\ rate_limit_store \in {<< >>, NearlyFull}
    /\ admitted = rate_limit_store
    /\ now = 0
    /\ task = [w \in Workers |-> Idle]
    /\ resp = NoResp
    /\ calls = << >>
    /\ budget = MaxRequests
    /\ secret_key = "sk_paystack"

NextAPI ==
    \/ \E h \in Headers, m \in Metas, b \in {BodyK1, BodyEUR} :
          APIInitiateStart(SeqWorker, h, m, b)
    \/ \E ref \in generate_reference(payments) : APIInitiateCreate(SeqWorker, ref)
    \/ \E r \in initialise_transaction(secret_key) : APIInitiateUpstream(SeqWorker, r)
    \/ \E h \in Headers, m \in Metas, ref \in KnownRefs \cup {UnknownRef} :
          APIPaymentStatus(SeqWorker, h, m, ref)
    \/ \E h \in Headers, m \in Metas, q \in ListQueries :
          APIPaymentList(SeqWorker, h, m, q)
    \/ \E h \in Headers, m \in Metas, ref \in KnownRefs \cup {UnknownRef},
          a \in RefundRequests : APIRefundStart(SeqWorker, h, m, ref, a)
    \/ \E r \in create_refund(secret_key) : RefundUpstream(SeqWorker, r)
    \/ DispatchLog(SeqWorker)
    \/ \E o \in EndpointOutcomes : DispatchPost(SeqWorker, o)
    \/ \E b \in ChargeBodies : PaystackWebhook(SeqWorker, b, HmacSha512(secret_key, b))
    \/ \E ref \in generate_reference(payments) :
          DirectInitiateStart(SeqWorker, BodyNoKey, ref)
    \/ \E r \in initialise_transaction(secret_key) : DirectInitiateUpstream(SeqWorker, r)
    \/ \E s \in ServiceIds : ServiceToggleActive(s)

SpecAPI == InitAPI /\ [][NextAPI]_vars

\* ------------------------------------------------- the inbound webhook
\* Bodies the endpoint may be sent: the processor's events for the first
\* reference, a body json.loads rejects, an event the view does not handle,
\* and events without or with an unknown reference.
NotJson ==
    [json |-> FALSE, event |-> "", data |-> [reference |-> "", id |-> "", amount |-> 0]]

OtherEvent ==
    [json |-> TRUE, event |-> "transfer.success",
     data |-> [reference |-> RefNames[1], id |-> "tr1", amount |-> 10000]]

InboundBodies ==
    {b \in WebhookBodies : b.data.reference = RefNames[1]}
    \cup {NotJson, OtherEvent, RefundProcessed("", 10000),
          ChargeSuccess(UnknownRef, CHOOSE r \in Reports : r.id = "tx1")}

\* X-Paystack-Signature values: the digest of the body under the configured
\* secret, under another secret, of another body, and under the empty secret.
Signatures(secret, b) ==
    {HmacSha512(secret, b), HmacSha512("sk_other", b), HmacSha512(secret, OtherEvent),
     HmacSha512("", b)}

NextWebhook ==
    \/ APIInitiateStart(SeqWorker, Bearer \o KeyA, MetaFromIp1, BodyK1)
    \/ \E ref \in generate_reference(payments) : APIInitiateCreate(SeqWorker, ref)
    \/ \E r \in initialise_transaction(secret_key) : APIInitiateUpstream(SeqWorker, r)
    \/ \E b \in InboundBodies : \E sig \in Signatures(secret_key, b) :
          PaystackWebhook(SeqWorker, b, sig)
    \/ DispatchLog(SeqWorker)
    \/ \E o \in EndpointOutcomes : DispatchPost(SeqWorker, o)

SpecWebhook == Init /\ [][NextWebhook]_vars

\* ------------------------------------------------------ the rate limiter
\* Clock readings at which requests arrive: the start, inside the first
\* window, and around its edge.
Instants == {0, 1, RATE_LIMIT_WINDOW - 1, RATE_LIMIT_WINDOW, RATE_LIMIT_WINDOW + 1}

\* time.time() between two requests: the clock moves on to t.
Tick(t) ==
    /\ t > now
    /\ now' = t
    /\ resp' = NoResp
    /\ UNCHANGED <<services, payments, logs, rate_limit_store, admitted, task, calls,
                   budget, secret_key>>

\* Keys of two buckets, an unknown key in the first bucket, another scheme.
RateHeaders == {Bearer \o KeyA, Bearer \o KeyX, Bearer \o KeyB, Basic \o KeyA}

NextRate ==
    \/ \E h \in RateHeaders : APIInitiateStart(SeqWorker, h, MetaFromIp1, BodyK1)
    \/ \E ref \in generate_reference(payments) : APIInitiateCreate(SeqWorker, ref)
    \/ \E r \in initialise_transaction(secret_key) : APIInitiateUpstream(SeqWorker, r)
    \/ \E h \in RateHeaders : APIPaymentStatus(SeqWorker, h, MetaFromIp1, RefNames[1])
    \/ \E t \in Instants : Tick(t)

SpecRate == InitAPI /\ [][NextRate]_vars

\* --------------------------------------------- the rate limiter in threads
\* _check_rate_limit takes no lock: run by the threads of a threaded server,
\* one call may be suspended between two bytecodes while another runs.  The
\* call is split where it reads the bucket: first `now = time.time()` and the
\* list comprehension over the stored list ...
CheckRateLimitPrune(w, key) ==
    /\ task[w] = Idle
    /\ budget > 0
    /\ budget' = budget - 1
    /\ resp' = NoResp
    /\ task' = [task EXCEPT ![w] =
                  [pc |-> "rate_store", key |-> key, now |-> now,
                   kept |-> Pruned(Stamps(rate_limit_store, key), now)]]
    /\ UNCHANGED <<services, payments, logs, rate_limit_store, admitted, now, calls,
                   secret_key>>

\* ... then the assignment of the pruned list to the bucket, the length test
\* and the append of `now`, with the verdict returned.
CheckRateLimitStore(w) ==
    LET t == task[w]
        ok == BagSize(t.kept) < RATE_LIMIT_MAX_REQUESTS
        new == IF ok THEN BagAdd(t.kept, t.now) ELSE t.kept
    IN
    /\ t.pc = "rate_store"
    /\ rate_limit_store' =
          [k \in DOMAIN rate_limit_store \cup {t.key} |->
              IF k = t.key THEN new ELSE rate_limit_store[k]]
    /\ admitted' =
          IF ok
          THEN [k \in DOMAIN admitted \cup {t.key} |->
                  IF k = t.key THEN BagAdd(Stamps(admitted, t.key), t.now)
                  ELSE admitted[k]]
          ELSE admitted
    /\ Reply(w, [op |-> "check_rate_limit", code |-> IF ok THEN 200 ELSE 429,
                 key |-> t.key, now |-> t.now])
    /\ UNCHANGED <<services, payments, logs, now, calls, budget, secret_key>>

\* Calls for two buckets made by concurrent threads while the clock moves on.
NextThreads ==
    \/ \E w \in Workers :
          \/ \E k \in {Bucket(KeyX), Bucket(KeyB)} : CheckRateLimitPrune(w, k)
          \/ CheckRateLimitStore(w)
    \/ \E t \in Instants : Tick(t)

SpecThreads == InitAPI /\ [][NextThreads]_vars

\* ------------------------------------------------- credentials over time
\* Requests bearing tenant A's first key or a key a regeneration may issue.
CredentialHeaders == {Bearer \o KeyA, Bearer \o KeyN1, Bearer \o KeyN2}

NextCredentials ==
    \/ \E h \in CredentialHeaders, m \in Metas :
          APIInitiateStart(SeqWorker, h, m, BodyK1)
    \/ \E ref \in generate_reference(payments) : APIInitiateCreate(SeqWorker, ref)
    \/ \E r \in initialise_transaction(secret_key) : APIInitiateUpstream(SeqWorker, r)
    \/ \E h \in CredentialHeaders, m \in Metas :
          APIPaymentStatus(SeqWorker, h, m, RefNames[1])
    \/ \E s \in ServiceIds : ServiceToggleActive(s)
    \/ \E s \in ServiceIds, c \in NewCredentials(services) : ServiceRegenerateKeys(s, c)

SpecCredentials == InitAPI /\ [][NextCredentials]_vars

\* ------------------------------------------------------- the dispatcher
DispatchEvents == {"payment.success", "payment.refunded"}

\* WebhookDispatcher.dispatch_webhook(service, payment, event) called on its
\* own for a stored payment of a tenant.
dispatch_webhook(w, pk, event) ==
    /\ task[w] = Idle
    /\ budget > 0
    /\ pk \in DOMAIN payments
    /\ payments[pk].service # NoService
    /\ event \in DispatchEvents
    /\ budget' = budget - 1
    /\ CallDispatch(w, payments[pk].service, pk, payments[pk], event,
                    [op |-> "dispatch", code |-> 0, pk |-> pk, event |-> event])
    /\ UNCHANGED <<services, payments, logs, rate_limit_store, admitted, now,
                   secret_key>>

\* Requests the dispatcher specification serves.
MaxDispatches == 1

\* The rows after tenant A and tenant B each initiated one payment.
InitiatedPayments ==
    <<[NewPayment(SvcA, RefNames[1], BodyK1, "k1")
          EXCEPT !.authorization_url = "https://p/abc"],
      [NewPayment(SvcB, RefNames[2], BodyK1, "k1")
          EXCEPT !.authorization_url = "https://p/abc"]>>

\* The state two accepted initiate requests leave behind, one per tenant,
\* with n requests still to come.
Initiated(n) ==
    /\ services = InitServices
    /\ payments = InitiatedPayments
    /\ logs = << >>
    /\ rate_limit_store = StoreAfterAuth(StoreAfterAuth(<< >>, 0, Bearer \o KeyA),
                                         0, Bearer \o KeyB)
    /\ admitted = rate_limit_store
    /\ now = 0
    /\ task = [w \in Workers |-> Idle]
    /\ resp = NoResp
    /\ calls = [pk \in 1..2 |-> [NoCalls EXCEPT !.init = 1]]
    /\ budget = n
    /\ secret_key = "sk_paystack"

InitDispatch == Initiated(MaxDispatches)

\* The dispatcher run for a payment of a tenant with a webhook_url and for one
\* of a tenant without, by the processor webhook or on its own, against an
\* endpoint that answers each attempt in any way.
NextDispatch ==
    \/ \E b \in ChargeBodies : PaystackWebhook(SeqWorker, b, HmacSha512(secret_key, b))
    \/ \E pk \in DOMAIN InitiatedPayments, e \in DispatchEvents :
          dispatch_webhook(SeqWorker, pk, e)
    \/ DispatchLog(SeqWorker)
    \/ \E o \in AttemptOutcomes : DispatchPost(SeqWorker, o)

\* The event loop resumes the dispatcher coroutine, and urlopen ends within
\* its timeout: a pending step of the retry loop is eventually taken.
DispatchFairness ==
    /\ WF_vars(DispatchLog(SeqWorker))
    /\ WF_vars(\E o \in AttemptOutcomes : DispatchPost(SeqWorker, o))

SpecDispatch == InitDispatch /\ [][NextDispatch]_vars /\ DispatchFairness

\* ------------------------------------------------------- tenant refunds
InitRefund == Initiated(MaxRequests)

\* Charges confirmed by the processor webhook and refunds asked for by the
\* tenants, one request at a time.
NextRefund ==
    \/ \E b \in ChargeBodies : PaystackWebhook(SeqWorker, b, HmacSha512(secret_key, b))
    \/ \E h \in TenantHeaders, ref \in KnownRefs, a \in RefundRequests :
          APIRefundStart(SeqWorker, h, MetaFromIp1, ref, a)
    \/ \E r \in create_refund(secret_key) : RefundUpstream(SeqWorker, r)
    \/ DispatchLog(SeqWorker)
    \/ \E o \in EndpointOutcomes : DispatchPost(SeqWorker, o)

SpecRefund == InitRefund /\ [][NextRefund]_vars

\* The rows once the processor confirmed the charge of tenant B's payment.
PaidPayments ==
    [InitiatedPayments EXCEPT ![2] =
        [@ EXCEPT !.status = "success", !.paystack_id = "tx1", !.channel = "card",
                  !.fees = 3500]]

\* The state after the charge.success webhook for tenant B's payment, which
\* found no webhook_url to notify.
InitPaid ==
    /\ services = InitServices
    /\ payments = PaidPayments
    /\ logs = << >>
    /\ rate_limit_store = StoreAfterAuth(StoreAfterAuth(<< >>, 0, Bearer \o KeyA),
                                         0, Bearer \o KeyB)
    /\ admitted = rate_limit_store
    /\ now = 0
    /\ task = [w \in Workers |-> Idle]
    /\ resp = NoResp
    /\ calls = [pk \in 1..2 |->
                  IF pk = 2 THEN [NoCalls EXCEPT !.init = 1, !.success = 1]
                  ELSE [NoCalls EXCEPT !.init = 1]]
    /\ budget = MaxRequests
    /\ secret_key = "sk_paystack"

\* Refund requests of tenant B and of the dashboard for the paid payment, the
\* processor's refund.processed webhooks for it and the verification callback
\* opened again for it, served concurrently.
NextPaid ==
    \E w \in Workers :
        \/ \E a \in RefundRequests :
              APIRefundStart(w, Bearer \o KeyB, MetaFromIp1, RefNames[2], a)
        \/ \E a \in RefundRequests : PaymentRefundStart(w, 2, a)
        \/ \E r \in create_refund(secret_key) : RefundUpstream(w, r)
        \/ VerifyStart(w, RefNames[2])
        \/ \E r \in verify_transaction(secret_key) : VerifyUpstream(w, r)
        \/ \E a \in ReportedRefunds :
              PaystackWebhook(w, RefundProcessed(RefNames[2], a),
                              HmacSha512(secret_key, RefundProcessed(RefNames[2], a)))

SpecPaid == InitPaid /\ [][NextPaid]_vars

\* ------------------------------------------- requests during a dispatch
\* Tenant A's payment while its notifications are being delivered: the
\* processor's charge.success webhook, the verification callback that upstream
\* does not confirm and the tenant's partial refund requests for it, served
\* concurrently.
NextOverlap ==
    \E w \in Workers :
        \/ \E r \in {x \in Reports : x.id = "tx1"} :
              PaystackWebhook(w, ChargeSuccess(RefNames[1], r),
                              HmacSha512(secret_key, ChargeSuccess(RefNames[1], r)))
        \/ VerifyStart(w, RefNames[1])
        \/ \E r \in {x \in verify_transaction(secret_key) : ~x.status} :
              VerifyUpstream(w, r)
        \/ \E a \in {Amount(10000)} :
              APIRefundStart(w, Bearer \o KeyA, MetaFromIp1, RefNames[1], a)
        \/ \E r \in create_refund(secret_key) : RefundUpstream(w, r)
        \/ DispatchLog(w)
        \/ \E o \in EndpointOutcomes : DispatchPost(w, o)

SpecOverlap == Initiated(MaxDispatches + 1) /\ [][NextOverlap]_vars

\* ------------------------------------------------ amounts sent upstream
\* Largest amount tried, in minor units.
MaxMinorUnits == 300

\* The integer initialise_transaction receives for an initiate request of
\* amount c / 100.
SendInitiateAmount(c) ==
    /\ resp' = [op |-> "initialise_transaction", code |-> 0, amount |-> c,
                amount_kobo |-> amount_in_kobo(c)]
    /\ UNCHANGED <<services, payments, logs, rate_limit_store, admitted, now, task,
                   calls, budget, secret_key>>

\* The integer create_refund receives for a partial refund of c / 100.
SendRefundAmount(c) ==
    /\ resp' = [op |-> "create_refund", code |-> 0, amount |-> c,
                amount_kobo |-> amount_kobo(c)]
    /\ UNCHANGED <<services, payments, logs, rate_limit_store, admitted, now, task,
                   calls, budget, secret_key>>

NextAmounts ==
    \/ \E c \in 1..MaxMinorUnits : SendInitiateAmount(c)
    \/ \E c \in 1..MaxMinorUnits : SendRefundAmount(c)

SpecAmounts == InitAPI /\ [][NextAmounts]_vars

\* -------------------------------------------- dispatch and new credentials
\* Dispatch sequences for tenant A's payment while the tenant's credentials
\* are regenerated from the dashboard.
NextSigned ==
    \/ \E b \in ChargeBodies : PaystackWebhook(SeqWorker, b, HmacSha512(secret_key, b))
    \/ \E e \in DispatchEvents : dispatch_webhook(SeqWorker, 1, e)
    \/ DispatchLog(SeqWorker)
    \/ \E o \in EndpointOutcomes : DispatchPost(SeqWorker, o)
    \/ \E c \in NewCredentials(services) : ServiceRegenerateKeys(SvcA, c)

SpecSigned == InitRefund /\ [][NextSigned]_vars

\* ------------------------------------------------- the refundable predicate
\* Payment.RefundStatus.choices
RefundStatuses == {"none", "pending", "partial", "full", "failed"}

\* Amounts and refunded amounts (minor units): nothing, part, all, more.
ChargedAmounts == {10000, 20000}
RefundedAmounts == {0, 10000, 20000, 30000}

\* Payment.is_refundable read on a row with the given columns.
ReadIsRefundable(status, refund_status, amount, refunded_amount) ==
    LET p == [status |-> status, refund_status |-> refund_status, amount |-> amount,
              refunded_amount |-> refunded_amount]
    IN
    /\ resp' = [op |-> "is_refundable", code |-> 0, payment |-> p,
                value |-> is_refundable(p)]
    /\ UNCHANGED <<services, payments, logs, rate_limit_store, admitted, now, task,
                   calls, budget, secret_key>>

NextRefundable ==
    \E st \in Statuses, rs \in RefundStatuses, a \in ChargedAmounts,
       r \in RefundedAmounts : ReadIsRefundable(st, rs, a, r)

SpecRefundable == InitAPI /\ [][NextRefundable]_vars

\* ================================================================ properties
\* Non-empty idempotency keys the requests carry.
Keys == {BodyK1.idempotency_key, BodyK2.idempotency_key}

\* The rows of tenant s with idempotency key k.
RowsFor(ps, s, k) ==
    {i \in DOMAIN ps : ps[i].service = s /\ ps[i].idempotency_key = k}

\* Upstream initiate calls made for the rows S.
RECURSIVE InitCalls(_, _)
InitCalls(cs, S) ==
    IF S = {} THEN 0
    ELSE LET i == CHOOSE x \in S : TRUE IN cs[i].init + InitCalls(cs, S \ {i})

\* C1: for every tenant-owned payment, under every interleaving of redirect
\* verifications that upstream reports successful and inbound charge.success
\* webhooks, dispatch_webhook is called with payment.success exactly once:
\* never a second time, and once as soon as the row is success.
C1_ExactlyOnceSuccessDispatch ==
    \A pk \in DOMAIN payments :
        payments[pk].service # NoService =>
            /\ calls[pk].success <= 1
            /\ payments[pk].status = "success" => calls[pk].success = 1

\* C2: in every reachable state a tenant has at most one payment row per
\* non-empty idempotency key, and upstream initiate was called at most once
\* for the pair, also when two initiate requests interleave between the
\* lookup and the insert.
C2_OneRowPerIdempotencyKey ==
    \A s \in ServiceIds, k \in Keys :
        /\ Cardinality(RowsFor(payments, s, k)) <= 1
        /\ InitCalls(calls, RowsFor(payments, s, k)) <= 1

\* C4: a payment whose stored status is success keeps status, processor
\* transaction id, channel and fees in every later step, whichever handler
\* takes it.
C4_SuccessIsTerminal ==
    [][\A pk \in DOMAIN payments :
          payments[pk].status = "success" =>
              /\ payments'[pk].status = "success"
              /\ payments'[pk].paystack_id = payments[pk].paystack_id
              /\ payments'[pk].channel = payments[pk].channel
              /\ payments'[pk].fees = payments[pk].fees]_vars

\* C5: every payment has 0 <= refunded_amount <= amount in every reachable
\* state, whatever amounts the refund paths and the processor report.
C5_RefundedWithinAmount ==
    \A pk \in DOMAIN payments :
        /\ 0 <= payments[pk].refunded_amount
        /\ payments[pk].refunded_amount <= payments[pk].amount

\* C6: refund_status agrees with refunded_amount for every payment in every
\* reachable state: full iff refunded_amount = amount, partial iff
\* 0 < refunded_amount < amount, none iff refunded_amount = 0.
C6_RefundStatusAgrees ==
    \A pk \in DOMAIN payments :
        LET p == payments[pk] IN
        /\ p.refund_status = "full" <=> p.refunded_amount = p.amount
        /\ p.refund_status = "partial" <=>
              (0 < p.refunded_amount /\ p.refunded_amount < p.amount)
        /\ p.refund_status = "none" <=> p.refunded_amount = 0

\* An initiate response to a validated request that carries an idempotency key.
KeyedInitiateResponse(r) ==
    /\ r.op = "initiate"
    /\ r.code \in {200, 500, 502}
    /\ r.key # ""

\* C3 as stated: served one after another, every validated initiate request
\* with a non-empty idempotency key is answered with the reference of the one
\* row of its (tenant, key), for which upstream initiate was called once.
C3_EveryResponseCarriesReference ==
    KeyedInitiateResponse(resp) =>
        LET rows == RowsFor(payments, resp.service, resp.key) IN
        /\ resp.code = 200
        /\ Cardinality(rows) = 1
        /\ \A i \in rows : resp.reference = payments[i].reference
        /\ InitCalls(calls, rows) = 1

\* What C3 asks of the state a step leaves.
C3_After ==
    /\ \A s \in ServiceIds, k \in Keys :
          /\ Cardinality(RowsFor(payments, s, k)) <= 1
          /\ InitCalls(calls, RowsFor(payments, s, k)) <= 1
    /\ KeyedInitiateResponse(resp) =>
          LET rows == RowsFor(payments, resp.service, resp.key) IN
          /\ resp.code \in {200, 502} =>
                Cardinality(rows) = 1 /\ InitCalls(calls, rows) = 1
          /\ resp.code = 200 => \A i \in rows : resp.reference = payments[i].reference
          /\ resp.code = 500 => rows = {}

\* C3, amended: served one after another, initiate requests of a tenant with
\* the same non-empty key leave at most one row for the key and at most one
\* upstream initiate call; once a request was answered 200 or 502 there is
\* exactly one row and one call; every 200 response carries the reference of
\* that row, which never changes (a 502 or 500 response carries none); rows
\* of distinct keys are distinct rows with their own call.
C3_SequentialIdempotency ==
    [][/\ C3_After'
       /\ Len(payments') >= Len(payments)
       /\ \A i \in DOMAIN payments :
             /\ payments'[i].reference = payments[i].reference
             /\ payments'[i].service = payments[i].service
             /\ payments'[i].idempotency_key = payments[i].idempotency_key]_vars

\* A replayed request is answered from the stored row, after a request with
\* another key created its own row.
C3_Witness ==
    /\ resp.op = "initiate"
    /\ resp.code = 200
    /\ resp.message = "Payment already exists (idempotent)"
    /\ \E i \in RowsFor(payments, resp.service, resp.key) :
          /\ resp.reference = payments[i].reference
          /\ calls[i].init = 1
    /\ \E i, j \in DOMAIN payments :
          /\ payments[i].service = payments[j].service
          /\ payments[i].idempotency_key # payments[j].idempotency_key

\* -------------------------------------------- properties of the public API
APIOps == {"initiate", "status", "list", "refund"}

\* The codes ServiceAuthMixin.dispatch answers with instead of calling the handler.
AuthFailureCodes == {401, 403, 429}

\* A task left by a public-API handler that goes on to its next await.
HandlerTask(t) ==
    t.pc = "init_create" \/ (t.pc = "refund_upstream" /\ t.op = "refund")

\* The step takes a public-API request.
StartedAPI ==
    /\ task[SeqWorker] = Idle
    /\ budget' = budget - 1
    /\ (resp'.op \in APIOps \/ HandlerTask(task'[SeqWorker]))

\* The request such a step took: its header and metadata, and the tenant
\* its handler runs for.
Request == IF resp'.op \in APIOps THEN resp' ELSE task'[SeqWorker]

\* The step answered from dispatch, without calling the handler.
Rejected == resp'.op \in APIOps /\ resp'.code \in AuthFailureCodes

\* The active tenants whose api_key the header bears.
Owners(h) ==
    {s \in ServiceIds :
        /\ services[s].is_active
        /\ StartsWith(h, Bearer)
        /\ services[s].api_key = Drop(h, BEARER_LEN)}

\* The caller's address: the first X-Forwarded-For entry, else the peer.
ClientIp(m) == IF m.xff = << >> THEN m.remote ELSE m.xff[1]

Allowed(s, m) ==
    services[s].allowed_ips = {} \/ ClientIp(m) \in services[s].allowed_ips

\* The bucket of the key the header bears holds RATE_LIMIT_MAX_REQUESTS
\* requests of the current window.
BucketFull(h) ==
    /\ StartsWith(h, Bearer)
    /\ BagSize(Pruned(Stamps(rate_limit_store, Bucket(Drop(h, BEARER_LEN))), now))
          >= RATE_LIMIT_MAX_REQUESTS

\* C7: a status read or refund request authenticated as tenant B for a
\* reference B does not own (owned by another tenant, by no tenant, or not
\* stored at all) is answered 404 "Payment not found" in each of these cases,
\* starts no upstream call and changes no payment, call count or log; a
\* refund handler goes on to upstream only for a payment of its own tenant.
C7_CrossTenantIsNotFound ==
    [][StartedAPI /\ ~Rejected =>
          /\ resp'.op \in {"status", "refund"} =>
                LET own == \E i \in DOMAIN payments :
                              /\ payments[i].reference = resp'.reference
                              /\ payments[i].service = resp'.service
                IN ~own =>
                      /\ resp'.code = 404
                      /\ resp'.error = "Payment not found"
                      /\ task' = task
                      /\ UNCHANGED <<payments, calls, logs>>
          /\ task'[SeqWorker].pc = "refund_upstream" =>
                payments[task'[SeqWorker].pk].service = task'[SeqWorker].service]_vars

\* A refund request for a refundable payment of another tenant was answered 404.
C7_Witness ==
    /\ resp.op = "refund"
    /\ resp.code = 404
    /\ \E i \in DOMAIN payments :
          /\ payments[i].reference = resp.reference
          /\ payments[i].service # resp.service
          /\ payments[i].service # NoService
          /\ is_refundable(payments[i])

\* C8: the list endpoint authenticated as tenant B returns only payments B
\* owns that match the status filter (when it names a status) and the email
\* filter (when given), and total is the number of those payments; payments
\* of other tenants and direct payments are neither returned nor counted.
C8_ListIsTenantScoped ==
    resp.op = "list" /\ resp.code = 200 =>
        LET matching ==
                {i \in DOMAIN payments :
                    /\ payments[i].service = resp.service
                    /\ resp.query.status \in Statuses =>
                          payments[i].status = resp.query.status
                    /\ resp.query.email # "" => payments[i].email = resp.query.email}
        IN /\ \A k \in DOMAIN resp.data :
                 \E i \in matching : payments[i].reference = resp.data[k]
           /\ resp.total = Cardinality(matching)

\* A tenant listed its payment while a payment of another tenant is stored.
C8_Witness ==
    /\ resp.op = "list"
    /\ resp.code = 200
    /\ resp.total = 1
    /\ Len(resp.data) = 1
    /\ \E i \in DOMAIN payments :
          payments[i].service \in ServiceIds \ {resp.service}

\* C9 as stated: a handler runs only for the key of an active tenant from an
\* allowed address; a missing or non-Bearer header, an unknown key or an
\* inactive tenant is answered 401 and a disallowed address 403, with no
\* change to tenants, payments or delivery logs.
C9_RejectedWith401Or403 ==
    [][StartedAPI =>
          LET rq == Request
              own == Owners(rq.header)
          IN /\ Rejected => UNCHANGED <<services, payments, logs>>
             /\ own = {} => Rejected /\ resp'.code = 401
             /\ (\E s \in own : ~Allowed(s, rq.meta)) => Rejected /\ resp'.code = 403
             /\ ~Rejected => \E s \in own : Allowed(s, rq.meta) /\ rq.service = s]_vars

\* C9, amended: a handler runs only for the key of an active tenant from an
\* allowed address, and runs as that tenant.  A missing or non-Bearer header
\* is answered 401; a Bearer key whose rate-limit bucket is full is answered
\* 429 whoever owns it; otherwise an unknown key or an inactive tenant is
\* answered 401 and a disallowed address 403.  Each rejection changes no
\* tenant, payment or delivery log and starts no handler.
C9_HandlerOnlyWhenAuthenticated ==
    [][StartedAPI =>
          LET rq == Request
              own == Owners(rq.header)
              full == BucketFull(rq.header)
          IN /\ Rejected => task' = task /\ UNCHANGED <<services, payments, logs, calls>>
             /\ full => Rejected /\ resp'.code = 429
             /\ ~full /\ own = {} => Rejected /\ resp'.code = 401
             /\ ~full /\ (\E s \in own : ~Allowed(s, rq.meta)) =>
                   Rejected /\ resp'.code = 403
             /\ ~Rejected => \E s \in own : Allowed(s, rq.meta) /\ rq.service = s]_vars

\* A request bearing a key no tenant owns was answered 429.
C9_Witness ==
    /\ resp.op \in APIOps
    /\ resp.code = 429
    /\ resp.header = Bearer \o KeyX
    /\ \A s \in ServiceIds : services[s].api_key # KeyX

\* C10 as stated: while tenant A is inactive, every API request bearing A's
\* key is answered 401 and runs no handler.
C10_InactiveKeyIs401 ==
    [][/\ StartedAPI
       /\ ~services[SvcA].is_active
       /\ Request.header = Bearer \o services[SvcA].api_key
       => /\ Rejected
          /\ resp'.code = 401
          /\ task' = task
          /\ UNCHANGED <<services, payments, logs, calls>>]_vars

\* C10, amended: while tenant A is inactive, every API request bearing A's
\* key is rejected and runs no handler: with 429 when the rate-limit bucket
\* of the key is full, with 401 otherwise.
C10_InactiveKeyIsRejected ==
    [][/\ StartedAPI
       /\ ~services[SvcA].is_active
       /\ Request.header = Bearer \o services[SvcA].api_key
       => /\ Rejected
          /\ resp'.code = IF BucketFull(Request.header) THEN 429 ELSE 401
          /\ task' = task
          /\ UNCHANGED <<services, payments, logs, calls>>]_vars

\* Tenant A, deactivated after it created a payment, was answered 401.
C10_Witness ==
    /\ resp.op \in APIOps
    /\ resp.code = 401
    /\ resp.header = Bearer \o services[SvcA].api_key
    /\ ~services[SvcA].is_active
    /\ \E i \in DOMAIN payments : payments[i].service = SvcA

\* ------------------------------------------ properties of the credentials
\* The tenants that held key k before a regeneration.
RetiredBy(k) == {s \in ServiceIds : k \in services[s].retired_keys}

\* C11 as stated: key and secret are replaced together; after a regeneration
\* every request bearing a retired key is answered 401, and a request bearing
\* the new key of an active tenant from an allowed address authenticates as
\* that tenant.
C11_OldKey401NewKeyAuthenticates ==
    [][/\ \A s \in ServiceIds :
             services'[s].api_key # services[s].api_key
                <=> services'[s].api_secret # services[s].api_secret
       /\ StartedAPI =>
             \A s \in ServiceIds :
                /\ Request.header \in {Bearer \o k : k \in services[s].retired_keys} =>
                      Rejected /\ resp'.code = 401
                /\ (/\ services[s].retired_keys # {}
                    /\ Request.header = Bearer \o services[s].api_key
                    /\ services[s].is_active
                    /\ Allowed(s, Request.meta)) =>
                      ~Rejected /\ Request.service = s]_vars

\* C11, amended: key and secret are replaced together in one write.  From
\* that write on a request bearing a retired key runs no handler and is
\* answered 401, or 429 when the rate-limit bucket of the key's first 12
\* characters is full; a request bearing the new key authenticates as the
\* tenant when the tenant is active, the address is allowed and the bucket
\* of the new key is not full.
C11_RegeneratedCredentials ==
    [][/\ \A s \in ServiceIds :
             services'[s].api_key # services[s].api_key
                <=> services'[s].api_secret # services[s].api_secret
       /\ StartedAPI =>
             \A s \in ServiceIds :
                /\ Request.header \in {Bearer \o k : k \in services[s].retired_keys} =>
                      /\ Rejected
                      /\ resp'.code = IF BucketFull(Request.header) THEN 429 ELSE 401
                      /\ task' = task
                      /\ UNCHANGED <<services, payments, logs, calls>>
                /\ (/\ services[s].retired_keys # {}
                    /\ Request.header = Bearer \o services[s].api_key
                    /\ services[s].is_active
                    /\ Allowed(s, Request.meta)
                    /\ ~BucketFull(Request.header)) =>
                      ~Rejected /\ Request.service = s]_vars

\* After a regeneration the new key created a payment for tenant A and the
\* retired key was then answered 401.
C11_Witness ==
    /\ resp.op \in APIOps
    /\ resp.code = 401
    /\ resp.header \in {Bearer \o k : k \in services[SvcA].retired_keys}
    /\ services[SvcA].is_active
    /\ \E i \in DOMAIN payments : payments[i].service = SvcA

\* ------------------------------------------ properties of the rate limiter
\* The requests of bucket b admitted with arrival time in the
\* RATE_LIMIT_WINDOW seconds ending at t: after t - RATE_LIMIT_WINDOW, up to t.
AdmittedWithin(b, t) ==
    LET RECURSIVE Sum(_)
        Sum(S) == IF S = {} THEN 0
                  ELSE LET x == CHOOSE y \in S : TRUE IN admitted[b][x] + Sum(S \ {x})
    IN Sum({x \in DOMAIN admitted[b] : t - RATE_LIMIT_WINDOW < x /\ x <= t})

\* C12: for every bucket and every instant t, at most RATE_LIMIT_MAX_REQUESTS
\* admitted requests arrived in the RATE_LIMIT_WINDOW seconds ending at t (a
\* window holds most when it ends at an arrival, so those t are checked);
\* a Bearer request arriving while that many admitted arrivals lie within the
\* window ending now is answered 429, runs no handler and is not admitted.
C12_SlidingWindowLimit ==
    [][/\ \A b \in DOMAIN admitted' : \A t \in Instants :
             AdmittedWithin(b, t)' <= RATE_LIMIT_MAX_REQUESTS
       /\ StartedAPI /\ StartsWith(Request.header, Bearer) =>
             LET b == Bucket(Drop(Request.header, BEARER_LEN)) IN
             (b \in DOMAIN admitted /\ AdmittedWithin(b, now) >= RATE_LIMIT_MAX_REQUESTS)
                <=> (/\ Rejected
                     /\ resp'.code = 429
                     /\ task' = task
                     /\ UNCHANGED <<services, payments, logs, calls, admitted>>)]_vars

\* Late in the window that the bucket's 60 admitted arrivals fill, a request
\* of the bucket was answered 429.
C12_Witness ==
    /\ now = RATE_LIMIT_WINDOW - 1
    /\ resp.op \in APIOps
    /\ resp.code = 429
    /\ LET b == Bucket(Drop(resp.header, BEARER_LEN)) IN
       /\ b \in DOMAIN admitted
       /\ AdmittedWithin(b, now) = RATE_LIMIT_MAX_REQUESTS

\* ---------------------------------------- properties of the inbound webhook
\* The step takes an inbound processor-webhook request.
StartedWebhook ==
    /\ task[SeqWorker] = Idle
    /\ budget' = budget - 1
    /\ \/ resp'.op = "webhook"
       \/ task'[SeqWorker].pc = "dispatch_log" /\ task'[SeqWorker].final.op = "webhook"

\* The request such a step took: its body and X-Paystack-Signature.
Inbound == IF resp'.op = "webhook" THEN resp' ELSE task'[SeqWorker].final

\* The signature is the HMAC-SHA512 of the body under the configured secret.
Verifies(rq) ==
    /\ secret_key # ""
    /\ rq.signature = [alg |-> "sha512", key |-> secret_key, msg |-> rq.body]

\* C13: an inbound webhook request whose signature is not the HMAC-SHA512 of
\* the body under the configured processor secret, or that arrives when no
\* secret is configured, is answered 400, changes no payment, creates no
\* delivery log and dispatches no outbound webhook, whatever its body names.
C13_BadSignatureChangesNothing ==
    [][StartedWebhook /\ ~Verifies(Inbound) =>
          /\ resp'.op = "webhook"
          /\ resp'.code = 400
          /\ task' = task
          /\ UNCHANGED <<payments, logs, calls, services>>]_vars

\* A charge.success event for a stored pending payment of a tenant, signed
\* with another secret, was answered 400.
C13_Witness ==
    /\ resp.op = "webhook"
    /\ resp.code = 400
    /\ secret_key # ""
    /\ resp.signature = HmacSha512("sk_other", resp.body)
    /\ resp.body.event = "charge.success"
    /\ \E i \in DOMAIN payments :
          /\ payments[i].reference = resp.body.data.reference
          /\ payments[i].service = SvcA
          /\ payments[i].status = "pending"

\* C14: a validly signed inbound webhook that is sent again right after it
\* was processed changes no payment, creates no delivery log and dispatches
\* no further outbound webhook.
C14_ReplayChangesNothing ==
    [][(/\ resp.op = "webhook"
        /\ resp.code = 200
        /\ StartedWebhook
        /\ Inbound.body = resp.body
        /\ Inbound.signature = resp.signature) =>
          /\ task' = task
          /\ UNCHANGED <<payments, logs, calls>>]_vars

\* C15: every inbound webhook request whose signature verifies is answered
\* 200, whatever its body holds: no JSON, an unknown event, an unknown or
\* missing reference.
C15_VerifiedIsAnswered200 ==
    [][StartedWebhook /\ Verifies(Inbound) => Inbound.code = 200]_vars

\* ----------------------------------------------------- C16 .. C19: dispatcher
Dispatching(t) == t.pc \in {"dispatch_log", "dispatch_post"}

\* dispatch_webhook returned in the last step.
DispatchReturned(r) == "dispatch" \in DOMAIN r

\* What the step changed in the Payment rows other than webhook_delivered.
SameDelivered(old, new) ==
    /\ DOMAIN new = DOMAIN old
    /\ \A pk \in DOMAIN old : new[pk].webhook_delivered = old[pk].webhook_delivered

C16_FailedSequence ==
    LET t == task[SeqWorker]
        d == resp'.dispatch
    IN
    /\ \A i \in DOMAIN logs' : logs'[i].attempt <= MAX_RETRIES
    /\ (Dispatching(t) /\ ~(DispatchReturned(resp') /\ resp'.dispatch.delivered))
          => payments' = payments
    /\ (Dispatching(t) /\ DispatchReturned(resp') /\ ~d.delivered)
          => /\ Len(d.rows) = MAX_RETRIES
             /\ \A i \in 1..MAX_RETRIES :
                   /\ logs'[d.rows[i]].attempt = i
                   /\ ~logs'[d.rows[i]].success
                   /\ logs'[d.rows[i]].payment = t.pk
                   /\ i < MAX_RETRIES => d.rows[i] < d.rows[i + 1]
             /\ Len(logs') = Len(logs)
             /\ task'[SeqWorker] = Idle
             /\ payments'[t.pk].webhook_delivered = payments[t.pk].webhook_delivered

\* C16: a dispatch sequence whose every attempt fails ends, having created
\* exactly MAX_RETRIES log rows with attempt 1, 2, 3 in creation order, each
\* with success false; no row has a higher attempt number, the call returns
\* not-delivered and the payment is left as it was.
C16_ThreeFailedAttempts ==
    /\ [][C16_FailedSequence]_vars
    /\ Dispatching(task[SeqWorker]) ~> (task[SeqWorker] = Idle)

C16_Witness ==
    /\ DispatchReturned(resp)
    /\ ~resp.dispatch.delivered
    /\ Len(resp.dispatch.rows) = MAX_RETRIES
    /\ \A i \in 1..MAX_RETRIES : ~logs[resp.dispatch.rows[i]].success

Is2xx(status) == status \in 200..299

C17_Attempt ==
    LET t == task[SeqWorker]
        id == t.rows[Len(t.rows)]
        d == resp'.dispatch
    IN
    t.pc = "dispatch_post" =>
       /\ logs'[id].attempt = t.attempt
       /\ Len(t.rows) = t.attempt
       /\ \A i \in 1..(Len(t.rows) - 1) : ~Is2xx(logs'[t.rows[i]].response_status)
       /\ IF Is2xx(logs'[id].response_status)
          THEN /\ task'[SeqWorker] = Idle
               /\ DispatchReturned(resp')
               /\ d.delivered
               /\ d.rows = t.rows
               /\ Len(logs') = Len(logs)
          ELSE t.attempt < MAX_RETRIES
                  => /\ ~DispatchReturned(resp')
                     /\ task'[SeqWorker].pc = "dispatch_log"
                     /\ task'[SeqWorker].attempt = t.attempt + 1

\* C17: a dispatch sequence stops at the first attempt answered with a status
\* in [200, 300): it returns delivered, having created as many log rows as the
\* index of that attempt; after any other outcome the next attempt follows
\* while fewer than MAX_RETRIES attempts have been made.
C17_StopsAtFirst2xx == [][C17_Attempt]_vars

C17_Witness ==
    /\ DispatchReturned(resp)
    /\ resp.dispatch.delivered
    /\ Len(resp.dispatch.rows) = 2
    /\ logs[resp.dispatch.rows[1]].error_message = "timed out"
    /\ logs[resp.dispatch.rows[2]].response_status = 204

C18_Pass ==
    LET t == task[SeqWorker]
        id == t.rows[Len(t.rows)]
        failed == ~logs'[id].success
    IN
    /\ t.pc = "dispatch_log" =>
          /\ \A i \in DOMAIN t.rows :
                /\ logs[t.rows[i]].attempt = i
                /\ logs[t.rows[i]].finished
          /\ Len(logs') = Len(logs) + 1
          /\ logs'[Len(logs')].attempt = Len(t.rows) + 1
          /\ ~logs'[Len(logs')].finished
          /\ task'[SeqWorker].pc = "dispatch_post"
          /\ task'[SeqWorker].rows = Append(t.rows, Len(logs'))
          /\ now' = now
    /\ t.pc = "dispatch_post" =>
          /\ ~logs[id].finished
          /\ logs'[id].finished
          /\ Len(logs') = Len(logs)
          /\ now' - now = IF failed /\ t.attempt = 1 THEN 1
                          ELSE IF failed /\ t.attempt = 2 THEN 5
                          ELSE 0
          /\ DispatchReturned(resp')
                => resp'.dispatch.waits = SubSeq(<<1, 5>>, 1, Len(t.rows) - 1)

\* C18: the attempts of one dispatch sequence are made in the order 1, 2, 3,
\* each after the previous one has finished and its log row is complete; the
\* dispatcher sleeps 1 s after a failed attempt 1 and 5 s after a failed
\* attempt 2, and sleeps neither after the last attempt nor after a
\* successful one.
C18_OrderedWithBackoff == [][C18_Pass]_vars

C18_Witness ==
    /\ DispatchReturned(resp)
    /\ resp.dispatch.waits = <<1, 5>>
    /\ now = 6
    /\ logs[resp.dispatch.rows[3]].success

C19_Call ==
    \A pk \in DOMAIN payments :
       (calls'[pk] # calls[pk] /\ services[payments[pk].service].webhook_url = "")
          => /\ logs' = logs
             /\ task'[SeqWorker] = Idle
             /\ DispatchReturned(resp')
             /\ ~resp'.dispatch.delivered
             /\ resp'.dispatch.rows = << >>
             /\ SameDelivered(payments, payments')
             /\ resp'.op = "dispatch" => payments' = payments

\* C19: for a tenant whose webhook_url is empty a call of dispatch_webhook,
\* for either event and any payment of the tenant, creates no log row, starts
\* no attempt, returns not-delivered and leaves the payment as it was.
C19_NoWebhookUrlNoDispatch == [][C19_Call]_vars

C19_Witness ==
    /\ resp.op = "dispatch"
    /\ resp.event = "payment.refunded"
    /\ services[payments[resp.pk].service].webhook_url = ""
    /\ ~resp.dispatch.delivered
    /\ logs = << >>

\* -------------------------------------------------------------- C20: refund
C20_FailedUpstream ==
    LET t == task[SeqWorker]
        t2 == task'[SeqWorker]
        failed == IF Dispatching(t2) THEN ~t2.final.upstream_status
                  ELSE ~resp'.upstream_status
    IN
    (t.pc = "refund_upstream" /\ t.op = "refund" /\ failed)
       => /\ resp'.op = "refund"
          /\ resp'.code = 502
          /\ t2 = Idle
          /\ payments' = payments
          /\ calls' = calls
          /\ logs' = logs

\* C20: when create_refund reports status false the refund request is answered
\* 502, no column of the Payment row changes and dispatch_webhook is not
\* called.
C20_FailedRefundChangesNothing == [][C20_FailedUpstream]_vars

C20_Witness ==
    /\ resp.op = "refund"
    /\ resp.code = 502
    /\ ~resp.upstream_status
    /\ \E pk \in DOMAIN payments :
          /\ payments[pk].reference = resp.reference
          /\ payments[pk].refund_status = "partial"

\* ------------------------------------------------- C21: failed initiation
\* Row pk was created by an initiate request with a key whose upstream call
\* failed and which has been answered, and no verification has touched it.
FailedInitiate(pk) ==
    /\ payments[pk].service # NoService
    /\ payments[pk].status = "pending"
    /\ payments[pk].idempotency_key # ""
    /\ payments[pk].authorization_url = ""
    /\ calls[pk].init = 1
    /\ \A w \in Workers : task[w].pc = "init_upstream" => task[w].pk # pk

\* The step answers an initiate request of tenant s with key k from the rows
\* found for the key.
AnsweredFromExisting(r, s, k) ==
    /\ r.op = "initiate"
    /\ r.code = 200
    /\ r.message = "Payment already exists (idempotent)"
    /\ r.service = s
    /\ r.key = k

C21_Step ==
    /\ \A w \in Workers :
          (task[w].pc = "init_upstream" /\ task'[w] = Idle /\ resp'.code = 502)
             => /\ payments' = payments
                /\ payments'[task[w].pk].authorization_url = ""
    /\ \A pk \in DOMAIN payments :
          FailedInitiate(pk) =>
             LET s == payments[pk].service
                 k == payments[pk].idempotency_key
             IN
             \A w \in Workers :
                task[w] = Idle =>
                   /\ ~(/\ task'[w].pc = "init_create"
                        /\ task'[w].service = s
                        /\ task'[w].body.idempotency_key = k)
                   /\ (task'[w] = Idle /\ AnsweredFromExisting(resp', s, k))
                         => /\ resp'.reference = payments[pk].reference
                            /\ resp'.status = "pending"
                            /\ calls' = calls

\* C21: a failed upstream initiate call is answered 502 and leaves the row it
\* created pending with an empty authorization_url; every later initiate of
\* the tenant with the key is answered with that row's reference and pending
\* status, creates no row and makes no upstream call.
C21_FailedInitiateIsRemembered == [][C21_Step]_vars

\* ------------------------------------------------ C22: refund not possible
\* The processor has refunded the whole amount of payment pk at the request
\* of the refund views.
RefundedInFull(pk) == calls[pk].refund_total >= payments[pk].amount

\* The step answered a refund request of the owning tenant for payment pk
\* from APIRefundView.post before its upstream call.
AnsweredRefund(r, pk) ==
    /\ r.op = "refund"
    /\ "header" \in DOMAIN r
    /\ r.code \notin AuthFailureCodes
    /\ r.reference = payments[pk].reference
    /\ r.service = payments[pk].service

C22_Step ==
    \A pk \in DOMAIN payments, w \in Workers :
       (task[w] = Idle /\ (~is_refundable(payments[pk]) \/ RefundedInFull(pk)))
          => /\ ~(/\ task'[w].pc = "refund_upstream"
                  /\ task'[w].op = "refund"
                  /\ task'[w].pk = pk)
             /\ (task'[w] = Idle /\ AnsweredRefund(resp', pk))
                   => /\ resp'.code = 400
                      /\ payments' = payments
                      /\ calls' = calls

\* C22: a refund request for a payment that is not refundable is answered 400
\* with no upstream call and no change of the row; once the refunds made for a
\* payment total its amount, every further refund request is answered 400.
C22_NotRefundableIs400 == [][C22_Step]_vars

\* -------------------------------------------------- C23: the owning tenant
C23_Step ==
    /\ Len(payments') >= Len(payments)
    /\ \A pk \in DOMAIN payments : payments'[pk].service = payments[pk].service
    /\ \A w \in Workers :
          /\ (task[w] = Idle /\ task'[w].pc = "init_create")
                => /\ services[task'[w].service].is_active
                   /\ Bearer \o services[task'[w].service].api_key = task'[w].header
          /\ (task[w].pc = "init_create" /\ task'[w].pc = "init_upstream")
                => /\ Len(payments') = Len(payments) + 1
                   /\ task'[w].pk = Len(payments')
                   /\ payments'[Len(payments')].service = task[w].service
          /\ (task[w] = Idle /\ task'[w].pc = "direct_upstream")
                => payments'[Len(payments')].service = NoService

\* C23: the tenant of a payment is the tenant whose key authenticated the
\* initiate request that created it, and no initiate, verification, inbound
\* webhook, refund or dispatch step changes it afterwards.
C23_TenantFixedAtCreation == [][C23_Step]_vars

C23_Witness ==
    /\ Len(payments) = 2
    /\ payments[1].service = SvcA
    /\ payments[2].service = SvcB
    /\ payments[1].status = "success"
    /\ payments[1].webhook_delivered

\* ----------------------------------------------------- C24: minor units
\* C24: for an amount with at most two fractional digits, c / 100, the integer
\* sent upstream at initiation and for a partial refund is round(amount * 100),
\* which is c.
C24_MinorUnitsAreRounded ==
    resp.op \in {"initialise_transaction", "create_refund"}
       => resp.amount_kobo = resp.amount

\* ------------------------------------------------ C25: signed deliveries
\* The step posts an attempt to the tenant endpoint.
Posts(w) == task[w].pc = "dispatch_post" /\ task'[w] # task[w]

\* The log row of the attempt worker w is posting.
Posting(w) == logs[task[w].rows[Len(task[w].rows)]]

\* C25: at every attempt of every dispatch sequence the X-Acoruss-Signature
\* sent is the HMAC-SHA256 of the body sent under the api_secret the tenant has
\* at that moment, also when credentials are regenerated meanwhile.
C25_SignatureVerifies ==
    [][\A w \in Workers :
          Posts(w) =>
             Posting(w).signature =
                sign_payload(Posting(w).request_body,
                             services[Posting(w).service].api_secret)]_vars

\* ---------------------------------------------------- C26: is_refundable
\* C26: for every status, refund_status, amount and refunded_amount,
\* is_refundable holds exactly when status is success, refund_status is none
\* or partial, and amount - refunded_amount > 0.
C26_IsRefundableIff ==
    resp.op = "is_refundable" =>
       (resp.value <=>
           /\ resp.payment.status = "success"
           /\ resp.payment.refund_status \in {"none", "partial"}
           /\ resp.payment.amount - resp.payment.refunded_amount > 0)

C26_Witness ==
    /\ resp.op = "is_refundable"
    /\ resp.value
    /\ resp.payment.refund_status = "partial"
    /\ resp.payment.refunded_amount = 10000
    /\ resp.payment.amount = 20000

\* --------------------------------------------- C27, C28: verification
\* C27: a payment that is failed or abandoned keeps its status: no
\* verification callback, inbound webhook or refund step changes the status of
\* a payment that is no longer pending.
C27_FailedIsTerminal ==
    [][\A pk \in DOMAIN payments :
          payments[pk].status \in {"failed", "abandoned"}
             => payments'[pk].status = payments[pk].status]_vars

\* The step ends a verification callback whose verify_transaction call
\* returned status false.
VerifyFailedUpstream(w) ==
    /\ task[w].pc = "verify_upstream"
    /\ task'[w] = Idle
    /\ resp'.op = "verify"
    /\ ~resp'.upstream_status

\* C28: when verify_transaction itself fails (status false: network error,
\* non-2xx answer, missing secret), the verification callback leaves the stored
\* payments as they were.
C28_FailedVerifyChangesNothing ==
    [][\A w \in Workers : VerifyFailedUpstream(w) => payments' = payments]_vars

\* ------------------------------------------------- C29: non-2xx answers
\* C29: when the tenant endpoint answers an attempt with a status outside
\* [200, 300), the attempt's log row records that status with success false
\* and payment.webhook_delivered is not set.
C29_FailureStatusIsLogged ==
    [][\A w \in Workers :
          LET id == task[w].rows[Len(task[w].rows)] IN
          (Posts(w) /\ logs'[id].answered # 0 /\ ~Is2xx(logs'[id].answered))
             => /\ logs'[id].response_status = logs'[id].answered
                /\ ~logs'[id].success
                /\ SameDelivered(payments, payments')]_vars

\* --------------------------------------------- C30: reference collisions
\* C30: an initiate request that reached the insert creates a payment, also
\* when the reference it drew first is already stored (a new one is drawn and
\* the insert retried), and no two payments share a reference.
C30_CollisionIsRetried ==
    [][/\ \A w \in Workers :
             (task[w].pc = "init_create" /\ task'[w] # task[w])
                => /\ Len(payments') = Len(payments) + 1
                   /\ task'[w].pc = "init_upstream"
       /\ \A i, j \in DOMAIN payments' :
             i # j => payments'[i].reference # payments'[j].reference]_vars

\* ------------------------------------------------- C31: direct payments
\* Worker w's step writes payment pk as successful: the verification callback
\* got its answer from upstream, or a verified charge.success webhook for the
\* payment's reference was taken.
SuccessWrite(w, pk) ==
    \/ /\ task[w].pc = "verify_upstream"
       /\ task[w].pk = pk
       /\ task'[w] # task[w]
       /\ payments'[pk].status = "success"
    \/ /\ task[w] = Idle
       /\ budget' = budget - 1
       /\ LET rq == IF resp'.op = "webhook" THEN resp'
                    ELSE IF task'[w].pc = "dispatch_log" THEN task'[w].final
                    ELSE NoResp
          IN /\ rq.op = "webhook"
             /\ rq.code = 200
             /\ rq.body.json
             /\ rq.body.event = "charge.success"
             /\ ByReference(payments, rq.body.data.reference) = {pk}

\* C31: the step in which the verification callback or an inbound
\* charge.success webhook writes a payment without tenant as successful calls
\* no dispatch_webhook and creates no delivery log; the request ends in that
\* step, and no delivery log ever names a payment without tenant.
C31_DirectSuccessNoDispatch ==
    [][/\ \A w \in Workers : \A pk \in DOMAIN payments :
             (payments[pk].service = NoService /\ SuccessWrite(w, pk)) =>
                 /\ payments'[pk].status = "success"
                 /\ calls'[pk] = calls[pk]
                 /\ logs' = logs
                 /\ task'[w] = Idle
                 /\ "dispatch" \notin DOMAIN resp'
       /\ \A i \in DOMAIN logs' :
             payments'[logs'[i].payment].service # NoService]_vars

\* The operator's page created the only payment, upstream reported the charge
\* successful to the verification callback, and the callback has answered.
C31_Witness ==
    /\ resp.op = "verify"
    /\ "upstream_status" \in DOMAIN resp
    /\ resp.upstream_status
    /\ Len(payments) = 1
    /\ payments[1].service = NoService
    /\ payments[1].status = "success"
    /\ calls[1].success = 0
    /\ logs = << >>

\* ------------------------------------------------ C32: what a refund writes
\* Worker w's step is the write of a refund operation: a refund view got its
\* answer from upstream, or a verified refund.processed webhook was taken.
RefundWrite(w) ==
    \/ /\ task[w].pc = "refund_upstream"
       /\ task'[w] # task[w]
    \/ /\ task[w] = Idle
       /\ budget' = budget - 1
       /\ LET rq == IF resp'.op = "webhook" THEN resp'
                    ELSE IF task'[w].pc = "dispatch_log" THEN task'[w].final
                    ELSE NoResp
          IN /\ rq.op = "webhook"
             /\ rq.code = 200
             /\ rq.body.json
             /\ rq.body.event = "refund.processed"

\* The row with its three refund columns taken from another row.
WithRefundFieldsOf(row, other) ==
    [row EXCEPT !.refunded_amount = other.refunded_amount,
                !.refund_status = other.refund_status,
                !.paystack_refund_id = other.paystack_refund_id]

\* C32: the write of a refund operation (API refund, dashboard refund, inbound
\* refund.processed webhook) leaves status, channel, fees and processor
\* transaction id of every payment as they are stored, and every other column
\* but refunded_amount, refund_status and the processor refund id.
C32_RefundWritesRefundFieldsOnly ==
    [][\A w \in Workers : RefundWrite(w) =>
          \A pk \in DOMAIN payments :
              /\ payments'[pk].status = payments[pk].status
              /\ payments'[pk].channel = payments[pk].channel
              /\ payments'[pk].fees = payments[pk].fees
              /\ payments'[pk].paystack_id = payments[pk].paystack_id
              /\ WithRefundFieldsOf(payments'[pk], payments[pk]) = payments[pk]]_vars

\* A refund of tenant B was answered 200 for a payment that the verification
\* callback had meanwhile marked failed: the refund columns were written and
\* the status was not written back.
C32_Witness ==
    /\ resp.op = "refund"
    /\ resp.code = 200
    /\ payments[2].status = "failed"
    /\ payments[2].refund_status = "partial"
    /\ payments[2].refunded_amount = 10000
    /\ payments[2].paystack_refund_id = "rf1"

\* ------------------------------------------ C33: concurrent admission checks
\* C33: however the steps of concurrent _check_rate_limit calls on a bucket
\* interleave, every admitted timestamp of the current window is in the
\* bucket, and at most RATE_LIMIT_MAX_REQUESTS requests are admitted with
\* arrival times in any RATE_LIMIT_WINDOW seconds.
C33_AdmissionIsMutuallyExclusive ==
    \A b \in DOMAIN admitted :
        /\ \A t \in DOMAIN admitted[b] :
              t > now - RATE_LIMIT_WINDOW =>
                  /\ t \in DOMAIN Stamps(rate_limit_store, b)
                  /\ Stamps(rate_limit_store, b)[t] >= admitted[b][t]
        /\ \A t \in Instants : AdmittedWithin(b, t) <= RATE_LIMIT_MAX_REQUESTS

\* ------------------------------------------------ C34: the delivered flag
\* C34: in every reachable state a payment with webhook_delivered = true has a
\* delivery log with success = true and has webhook_delivered_at set; the flag
\* is set only in the step in which an attempt for the payment was answered
\* with a status in [200, 300), and no step resets it.
C34_DeliveredMeansLoggedSuccess ==
    [][\A pk \in DOMAIN payments :
          /\ payments'[pk].webhook_delivered =>
                /\ \E i \in DOMAIN logs' : logs'[i].payment = pk /\ logs'[i].success
                /\ payments'[pk].webhook_delivered_at # << >>
          /\ payments[pk].webhook_delivered => payments'[pk].webhook_delivered
          /\ (~payments[pk].webhook_delivered /\ payments'[pk].webhook_delivered) =>
                \E w \in Workers :
                    /\ Posts(w)
                    /\ task[w].pk = pk
                    /\ Is2xx(logs'[task[w].rows[Len(task[w].rows)]].answered)]_vars

\* The second attempt of a sequence for tenant A's payment was answered 200
\* and the dispatcher returned True: the payment is marked, with the time.
C34_Witness ==
    /\ DispatchReturned(resp)
    /\ resp.dispatch.delivered
    /\ Len(resp.dispatch.rows) = 2
    /\ ~logs[resp.dispatch.rows[1]].success
    /\ logs[resp.dispatch.rows[2]].success
    /\ logs[resp.dispatch.rows[2]].payment = 1
    /\ payments[1].webhook_delivered
    /\ payments[1].webhook_delivered_at = <<now>>

\* ----------------------------------------- C39: what the dispatcher writes
\* C39: a step of dispatch_webhook changes no column of any payment but
\* webhook_delivered and webhook_delivered_at, also when the row was written
\* by a refund or a verification after the dispatcher got its Payment object.
C39_DispatcherWritesDeliveredOnly ==
    [][\A w \in Workers :
          (Dispatching(task[w]) /\ task'[w] # task[w]) =>
              \A pk \in DOMAIN payments :
                  [payments'[pk] EXCEPT
                      !.webhook_delivered = payments[pk].webhook_delivered,
                      !.webhook_delivered_at = payments[pk].webhook_delivered_at]
                     = payments[pk]]_vars

\* The only payment.success sequence for tenant A's payment, started by the
\* charge.success webhook, delivered at its second attempt or later, after a
\* refund request had written the refund columns of the row: they are kept.
C39_Witness ==
    /\ resp.op = "webhook"
    /\ resp.body.event = "charge.success"
    /\ DispatchReturned(resp)
    /\ resp.dispatch.delivered
    /\ Len(resp.dispatch.rows) >= 2
    /\ calls[1].success = 1
    /\ payments[1].webhook_delivered
    /\ payments[1].refund_status = "partial"
    /\ payments[1].refunded_amount = 10000
    /\ payments[1].paystack_refund_id = "rf1"

\* ----------------------------------------------- C35: cumulative refunds
\* C35: no step lowers the stored refunded_amount of a payment, whichever
\* refund path takes it.
C35_RefundedAmountNeverDecreases ==
    [][\A pk \in DOMAIN payments :
          payments'[pk].refunded_amount >= payments[pk].refunded_amount]_vars

\* ------------------------------------- C36: refund columns and the status
\* C36: in every reachable state a payment with refund_status other than none
\* or with refunded_amount > 0 has status success.
C36_RefundedImpliesSuccess ==
    \A pk \in DOMAIN payments :
        (payments[pk].refund_status # "none" \/ payments[pk].refunded_amount > 0)
            => payments[pk].status = "success"

\* ------------------------------------------- C37: overlapping refund requests
\* C37: for a payment no refund.processed webhook was handled for, the stored
\* refunded_amount is the sum of the amounts upstream reported refunded to the
\* refund requests that succeeded, however the requests interleave.
C37_RefundedIsSumOfReported ==
    \A pk \in DOMAIN payments :
        calls[pk].refund_webhooks = 0 =>
            payments[pk].refunded_amount = calls[pk].refund_total

\* ---------------------------------------------- C38: amounts sent upstream
\* The amount the refund view of task t asks upstream to refund: the amount
\* of the request, else (a full refund) what was left when it read the row.
Forwarded(t) ==
    IF t.amount_raw.given THEN amount_kobo(t.amount_raw.value)
    ELSE refundable_amount(t.copy)

\* C38: when a refund view calls create_refund for a payment no
\* refund.processed webhook was handled for, the amount it forwards and the
\* amounts upstream already refunded for the payment do not exceed the
\* payment's amount together, also when another refund request passed its
\* checks on the same row meanwhile.
C38_ForwardedWithinAmount ==
    [][\A w \in Workers :
          LET t == task[w] IN
          (/\ t.pc = "refund_upstream"
           /\ task'[w] # t
           /\ calls[t.pk].refund_webhooks = 0) =>
              Forwarded(t) + calls[t.pk].refund_total <= payments[t.pk].amount]_vars

\* ------------------------------------------------ rejections and the block
\* The admitted arrivals of bucket b within the window ending now.
AdmittedInWindow(b) == IF b \in DOMAIN admitted THEN AdmittedWithin(b, now) ELSE 0

\* C40: a Bearer request answered 429 leaves in its bucket exactly the
\* timestamps of the window that were there, without its own arrival, and
\* records no admission; a request is answered 429 exactly when
\* RATE_LIMIT_MAX_REQUESTS admitted arrivals lie within the window ending now,
\* however many requests were rejected before; and a request of a bucket all
\* of whose timestamps are RATE_LIMIT_WINDOW seconds old or older is admitted.
C40_RejectedDoNotExtendBlock ==
    [][StartedAPI /\ StartsWith(Request.header, Bearer) =>
          LET b == Bucket(Drop(Request.header, BEARER_LEN))
              before == Stamps(rate_limit_store, b)
              limited == Rejected /\ resp'.code = 429
          IN /\ limited => /\ Stamps(rate_limit_store', b) = Pruned(before, now)
                            /\ BagSize(Stamps(rate_limit_store', b)) <= BagSize(before)
                            /\ admitted' = admitted
             /\ limited <=> AdmittedInWindow(b) >= RATE_LIMIT_MAX_REQUESTS
             /\ ~limited => Stamps(rate_limit_store', b) = BagAdd(Pruned(before, now), now)
             /\ (\A x \in DOMAIN before : x + RATE_LIMIT_WINDOW <= now) => ~limited]_vars

\* A bucket whose RATE_LIMIT_MAX_REQUESTS admitted arrivals filled the first
\* window, so that its requests late in that window were answered 429, had a
\* request admitted once the window had passed.
C40_Witness ==
    /\ now >= RATE_LIMIT_WINDOW
    /\ resp.op \in APIOps
    /\ resp.code # 429
    /\ StartsWith(resp.header, Bearer)
    /\ LET b == Bucket(Drop(resp.header, BEARER_LEN)) IN
       /\ b \in DOMAIN admitted
       /\ AdmittedWithin(b, RATE_LIMIT_WINDOW - 1) = RATE_LIMIT_MAX_REQUESTS
       /\ now \in DOMAIN admitted[b]
       /\ now \in DOMAIN Stamps(rate_limit_store, b)

====
